---------------------------- MODULE Spec2Model ----------------------------
(***************************************************************************)
(* Model of mtrain's protected-span masker (preprocessing/masking.py) and  *)
(* of the Moses character escaping it relies on (preprocessing/cleaner.py).*)
(*                                                                         *)
(* A text is a sequence of one-character strings, so that regular          *)
(* expressions, str.replace and str.split are computed character by        *)
(* character as Python computes them.  Token indexes of the alignment are  *)
(* zero-based as in the code; sequences are one-based as in TLA+.          *)
(***************************************************************************)
EXTENDS Integers, Sequences, FiniteSets, TLC

(***************************************************************************)
(* Characters                                                              *)
(***************************************************************************)
Lower == {"a","b","c","d","e","f","g","h","i","j","k","l","m",
          "n","o","p","q","r","s","t","u","v","w","x","y","z"}
Digit == {"0","1","2","3","4","5","6","7","8","9"}
Space == {" "}
Punct == {"<", ">", "/", "@", ".", "_", "-", ":", "&", ";", "#",
          "|", "[", "]", "'", "\"", "="}
Alphabet == Lower \cup Digit \cup Space \cup Punct

\* \w of Python's re on the characters above
WordChar == Lower \cup Digit \cup {"_"}

(***************************************************************************)
(* Sequence helpers                                                        *)
(***************************************************************************)
RECURSIVE Concat(_)
Concat(ss) == IF ss = <<>> THEN <<>> ELSE Head(ss) \o Concat(Tail(ss))

\* s has t as a substring starting at (one-based) position i
StartsAt(s, t, i) ==
    /\ i >= 1
    /\ i + Len(t) - 1 <= Len(s)
    /\ \A k \in 1..Len(t) : s[i + k - 1] = t[k]

\* str.find: the least position at or after i where t occurs in s, 0 if none
RECURSIVE Find(_, _, _)
Find(s, t, i) ==
    IF i + Len(t) - 1 > Len(s) THEN 0
    ELSE IF StartsAt(s, t, i) THEN i
    ELSE Find(s, t, i + 1)

\* str.replace(old, new) for a non-empty old: every non-overlapping
\* occurrence, scanning from the left
RECURSIVE ReplaceAll(_, _, _)
ReplaceAll(s, old, new) ==
    LET p == Find(s, old, 1) IN
    IF p = 0 THEN s
    ELSE SubSeq(s, 1, p - 1) \o new
         \o ReplaceAll(SubSeq(s, p + Len(old), Len(s)), old, new)

\* str.replace(old, new, 1) for a non-empty old: the first occurrence only
ReplaceFirst(s, old, new) ==
    LET p == Find(s, old, 1) IN
    IF p = 0 THEN s
    ELSE SubSeq(s, 1, p - 1) \o new \o SubSeq(s, p + Len(old), Len(s))

\* str.split(" "): cut at every single space, empty tokens kept
RECURSIVE Split(_)
Split(s) ==
    LET p == Find(s, <<" ">>, 1) IN
    IF p = 0 THEN <<s>>
    ELSE <<SubSeq(s, 1, p - 1)>> \o Split(SubSeq(s, p + 1, Len(s)))

\* " ".join(tokens)
RECURSIVE Join(_)
Join(tokens) ==
    IF tokens = <<>> THEN <<>>
    ELSE IF Len(tokens) = 1 THEN tokens[1]
    ELSE tokens[1] \o <<" ">> \o Join(Tail(tokens))

\* "%d" % n for n >= 0
RECURSIVE Decimal(_)
Decimal(n) ==
    LET d == <<"0","1","2","3","4","5","6","7","8","9">>[(n % 10) + 1]
    IN IF n < 10 THEN <<d>> ELSE Decimal(n \div 10) \o <<d>>

(***************************************************************************)
(* Regular expressions, matched the way Python's backtracking engine       *)
(* matches them: Ends(r, s, i) lists the positions at which a match of r   *)
(* that starts at i can end, in the order the engine tries them (greedy    *)
(* repetition first, alternatives left to right).                          *)
(***************************************************************************)
Ch(set)        == [t |-> "set", set |-> set]
Cat(parts)     == [t |-> "cat", parts |-> parts]
Alt(left, right) == [t |-> "alt", left |-> left, right |-> right]
Rep(r, min)    == [t |-> "rep", r |-> r, min |-> min, opt |-> FALSE]
Opt(r)         == [t |-> "rep", r |-> r, min |-> 0, opt |-> TRUE]
NotAhead(r)    == [t |-> "nla", r |-> r]
Lit(text)      == Cat([k \in 1..Len(text) |-> Ch({text[k]})])

RECURSIVE Ends(_, _, _), EndsCat(_, _, _, _), EndsRep(_, _, _, _), EndsEach(_, _, _, _, _)
Ends(r, s, i) ==
    CASE r.t = "set" -> IF i <= Len(s) /\ s[i] \in r.set THEN <<i + 1>> ELSE <<>>
      [] r.t = "cat" -> EndsCat(r.parts, 1, s, <<i>>)
      [] r.t = "alt" -> Ends(r.left, s, i) \o Ends(r.right, s, i)
      [] r.t = "rep" -> EndsRep(r, s, i, 0)
      [] r.t = "nla" -> IF Ends(r.r, s, i) = <<>> THEN <<i>> ELSE <<>>

\* the parts from the k-th on, tried from each of the positions `from` in turn
EndsCat(parts, k, s, from) ==
    IF from = <<>> THEN <<>>
    ELSE IF k > Len(parts) THEN from
    ELSE EndsCat(parts, k + 1, s, Ends(parts[k], s, Head(from)))
         \o EndsCat(parts, k, s, Tail(from))

\* one more repetition first (greedy), then stopping here
EndsRep(r, s, i, n) ==
    LET more == IF r.opt /\ n >= 1 THEN <<>> ELSE Ends(r.r, s, i)
    IN EndsEach(r, s, i, n, more) \o (IF n >= r.min THEN <<i>> ELSE <<>>)

EndsEach(r, s, i, n, more) ==
    IF more = <<>> THEN <<>>
    ELSE (IF Head(more) > i THEN EndsRep(r, s, Head(more), n + 1) ELSE <<>>)
         \o EndsEach(r, s, i, n, Tail(more))

\* re.match: the end of the match of r at position i, 0 if there is none
MatchEnd(r, s, i) ==
    LET e == Ends(r, s, i) IN IF e = <<>> THEN 0 ELSE Head(e)

\* re.match(r, s) is not None
Matches(r, s) == MatchEnd(r, s, 1) # 0

(***************************************************************************)
(* constants.py                                                            *)
(***************************************************************************)
MASKING_ALIGNMENT == "alignment"
MASKING_IDENTITY  == "identity"
MASKING_STRATEGIES == {MASKING_ALIGNMENT, MASKING_IDENTITY}

REINSERTION_FULL         == "full"
REINSERTION_SEGMENTATION == "segmentation"
REINSERTION_ALIGNMENT    == "alignment"

\* MOSES_SPECIAL_CHARS, an OrderedDict: the pairs in insertion order
MOSES_SPECIAL_CHARS == <<
    << <<"&">>,  <<"&","a","m","p",";">> >>,
    << <<"|">>,  <<"&","#","1","2","4",";">> >>,
    << <<"<">>,  <<"&","l","t",";">> >>,
    << <<">">>,  <<"&","g","t",";">> >>,
    << <<"\"">>, <<"&","q","u","o","t",";">> >>,
    << <<"'">>,  <<"&","a","p","o","s",";">> >>,
    << <<"[">>,  <<"&","#","9","1",";">> >>,
    << <<"]">>,  <<"&","#","9","3",";">> >> >>

NonSpace == Alphabet \ Space

\* r'<\/?[a-zA-Z_][a-zA-Z_.\-0-9]*[^<>]*\/?>'
PatternXml ==
    Cat(<< Ch({"<"}), Opt(Ch({"/"})), Ch(Lower \cup {"_"}),
           Rep(Ch(Lower \cup Digit \cup {"_", ".", "-"}), 0),
           Rep(Ch(Alphabet \ {"<", ">"}), 0),
           Opt(Ch({"/"})), Ch({">"}) >>)

\* r'[\w\-\_\.]+\@([\w\-\_]+\.)+[a-zA-Z]{2,}'
PatternEmail ==
    Cat(<< Rep(Ch(WordChar \cup {"-", "_", "."}), 1), Ch({"@"}),
           Rep(Cat(<< Rep(Ch(WordChar \cup {"-", "_"}), 1), Ch({"."}) >>), 1),
           Rep(Ch(Lower), 2) >>)

\* r'(https?:\/\/(?:www\.|(?!www))[^\s\.]+\.[^\s]{2,}|www\.[^\s]+\.[^\s]{2,})'
PatternUrl ==
    Alt(Cat(<< Lit(<<"h","t","t","p">>), Opt(Ch({"s"})), Lit(<<":","/","/">>),
               Alt(Lit(<<"w","w","w",".">>), NotAhead(Lit(<<"w","w","w">>))),
               Rep(Ch(NonSpace \ {"."}), 1), Ch({"."}), Rep(Ch(NonSpace), 2) >>),
        Cat(<< Lit(<<"w","w","w",".">>), Rep(Ch(NonSpace), 1), Ch({"."}),
               Rep(Ch(NonSpace), 2) >>))

\* PROTECTED_PATTERNS in the order its items() are enumerated
PROTECTED_PATTERNS == <<
    [mask |-> <<"x","m","l">>,         regex |-> PatternXml],
    [mask |-> <<"e","m","a","i","l">>, regex |-> PatternEmail],
    [mask |-> <<"u","r","l">>,         regex |-> PatternUrl] >>

(***************************************************************************)
(* cleaner.py                                                              *)
(***************************************************************************)
RECURSIVE EscapeFrom(_, _)
EscapeFrom(segment, k) ==
    IF k > Len(MOSES_SPECIAL_CHARS) THEN segment
    ELSE EscapeFrom(ReplaceAll(segment, MOSES_SPECIAL_CHARS[k][1],
                               MOSES_SPECIAL_CHARS[k][2]), k + 1)

\* The table applied with the ampersand's row last instead of first: the
\* ampersands of the entities just written get escaped again
RECURSIVE EscapeAmpersandLastFrom(_, _)
EscapeAmpersandLastFrom(segment, k) ==
    IF k > Len(MOSES_SPECIAL_CHARS)
    THEN ReplaceAll(segment, MOSES_SPECIAL_CHARS[1][1], MOSES_SPECIAL_CHARS[1][2])
    ELSE EscapeAmpersandLastFrom(ReplaceAll(segment, MOSES_SPECIAL_CHARS[k][1],
                                            MOSES_SPECIAL_CHARS[k][2]), k + 1)

EscapeAmpersandLast(segment) == EscapeAmpersandLastFrom(segment, 2)

escape_special_chars(segment) == EscapeFrom(segment, 1)

RECURSIVE DeescapeFrom(_, _)
DeescapeFrom(segment, k) ==
    IF k < 1 THEN segment
    ELSE DeescapeFrom(ReplaceAll(segment, MOSES_SPECIAL_CHARS[k][2],
                                 MOSES_SPECIAL_CHARS[k][1]), k - 1)

\* The table undone in the order it was applied, the ampersand's row first,
\* instead of in reverse
RECURSIVE DeescapeForwardFrom(_, _)
DeescapeForwardFrom(segment, k) ==
    IF k > Len(MOSES_SPECIAL_CHARS) THEN segment
    ELSE DeescapeForwardFrom(ReplaceAll(segment, MOSES_SPECIAL_CHARS[k][2],
                                        MOSES_SPECIAL_CHARS[k][1]), k + 1)

DeescapeAmpersandFirst(segment) == DeescapeForwardFrom(segment, 1)

deescape_special_chars(segment) == DeescapeFrom(segment, Len(MOSES_SPECIAL_CHARS))

(***************************************************************************)
(* masking.py: _Replacement and Masker.mask_segment                        *)
(***************************************************************************)
\* A replacement whose occurrence index starts at 1 instead of 0
ReplacedCountingFromOne(replacement, with_id, occurrences) ==
    IF with_id
    THEN <<"_","_">> \o replacement \o <<"_">> \o Decimal(Len(occurrences) + 1) \o <<"_","_">>
    ELSE <<"_","_">> \o replacement \o <<"_","_">>

\* _Replacement.__call__: the text put in place of a match, given the
\* occurrences recorded so far
Replaced(replacement, with_id, occurrences) ==
    IF with_id
    THEN <<"_","_">> \o replacement \o <<"_">> \o Decimal(Len(occurrences)) \o <<"_","_">>
    ELSE <<"_","_">> \o replacement \o <<"_","_">>

\* re.sub(regex, replacement, segment) from position i on: out is the text
\* produced so far and occurrences what the _Replacement has recorded
RECURSIVE SubFrom(_, _, _, _, _, _, _)
SubFrom(regex, replacement, with_id, segment, i, out, occurrences) ==
    IF i > Len(segment) THEN [segment |-> out, occurrences |-> occurrences]
    ELSE LET e == MatchEnd(regex, segment, i) IN
         IF e > i
         THEN LET replaced == Replaced(replacement, with_id, occurrences)
                  matched  == SubSeq(segment, i, e - 1)
              IN SubFrom(regex, replacement, with_id, segment, e, out \o replaced,
                         Append(occurrences, <<replaced, matched>>))
         ELSE SubFrom(regex, replacement, with_id, segment, i + 1,
                      Append(out, segment[i]), occurrences)

Sub(regex, replacement, with_id, segment) ==
    SubFrom(regex, replacement, with_id, segment, 1, <<>>, <<>>)

\* A loop that puts each pattern's occurrences in front of the mapping
\* instead of extending it
RECURSIVE MaskLoopPrepending(_, _, _)
MaskLoopPrepending(strategy, segment, k) ==
    IF k = 0 THEN [segment |-> segment, mapping |-> <<>>]
    ELSE LET before == MaskLoopPrepending(strategy, segment, k - 1)
             replacement ==
                 Sub(PROTECTED_PATTERNS[k].regex, PROTECTED_PATTERNS[k].mask,
                     strategy = MASKING_IDENTITY, before.segment)
         IN [segment |-> replacement.segment,
             mapping |-> replacement.occurrences \o before.mapping]

\* The loop of mask_segment over the first k protected patterns: the
\* segment and the mapping after the k-th iteration
RECURSIVE MaskLoop(_, _, _)
MaskLoop(strategy, segment, k) ==
    IF k = 0 THEN [segment |-> segment, mapping |-> <<>>]
    ELSE LET before == MaskLoop(strategy, segment, k - 1)
             replacement ==
                 Sub(PROTECTED_PATTERNS[k].regex, PROTECTED_PATTERNS[k].mask,
                     strategy = MASKING_IDENTITY, before.segment)
         IN [segment |-> replacement.segment,
             mapping |-> before.mapping \o replacement.occurrences]

mask_segment(strategy, escape, segment) ==
    LET masked == MaskLoop(strategy, segment, Len(PROTECTED_PATTERNS))
    IN [segment |-> IF escape THEN escape_special_chars(masked.segment)
                    ELSE masked.segment,
        mapping |-> masked.mapping]

(***************************************************************************)
(* masking.py: Masker.unmask_segment                                       *)
(***************************************************************************)
\* Masker._is_mask_token: the loop over PROTECTED_PATTERNS.keys() returns in
\* its first iteration, so only the first mask is ever compared
_is_mask_token(strategy, token) ==
    LET mask == PROTECTED_PATTERNS[1].mask IN
    IF strategy = MASKING_IDENTITY
    THEN Matches(Cat(<< Lit(<<"_","_">> \o mask \o <<"_">>), Rep(Ch(Digit), 1),
                        Lit(<<"_","_">>) >>), token)
    ELSE token = <<"_","_">> \o mask \o <<"_","_">>

\* the index of the last entry of the mapping with the placeholder mask
LastOriginal(mask, mapping) ==
    IF \E i \in 1..Len(mapping) : mapping[i][1] = mask
    THEN CHOOSE i \in 1..Len(mapping) :
             /\ mapping[i][1] = mask
             /\ \A j \in (i + 1)..Len(mapping) : mapping[j][1] # mask
    ELSE 0

\* Masker._first_original: the (one-based) index of the first tuple of
\* the mapping whose token is mask; 0 where the method returns None
_first_original(mask, mapping) ==
    IF \E i \in 1..Len(mapping) : mapping[i][1] = mask
    THEN CHOOSE i \in 1..Len(mapping) :
             /\ mapping[i][1] = mask
             /\ \A j \in 1..(i - 1) : mapping[j][1] # mask
    ELSE 0

\* del mapping[index]
Del(list, index) ==
    SubSeq(list, 1, index - 1) \o SubSeq(list, index + 1, Len(list))

\* for mask_token, original in mapping:
\*     target_segment = target_segment.replace(mask_token, original, 1)
RECURSIVE ReplaceInOrder(_, _)
ReplaceInOrder(target_segment, mapping) ==
    IF mapping = <<>> THEN target_segment
    ELSE ReplaceInOrder(ReplaceFirst(target_segment, mapping[1][1], mapping[1][2]),
                        Tail(mapping))

\* An alignment is None or a dictionary from source indexes to lists of
\* target indexes.
None == [none |-> TRUE, dict |-> <<>>]
Dict(d) == [none |-> FALSE, dict |-> d]

\* The loop over the aligned candidates of one source mask token.  st holds
\* the target tokens, the caller's mapping and the exception raised, if any.
RECURSIVE FollowAlignment(_, _, _, _, _)
FollowAlignment(strategy, source_token, candidates, c, st) ==
    IF c > Len(candidates) THEN st
    ELSE LET candidate_index == candidates[c] IN
         IF candidate_index >= Len(st.target_tokens)
         THEN [st EXCEPT !.raised = "IndexError"]
         ELSE IF _is_mask_token(strategy, st.target_tokens[candidate_index + 1])
         THEN LET remove_index == _first_original(source_token, st.mapping) IN
              IF remove_index = 0
              THEN [st EXCEPT !.raised = "TypeError"]
              ELSE [st EXCEPT
                       !.target_tokens[candidate_index + 1] = st.mapping[remove_index][2],
                       !.mapping = Del(st.mapping, remove_index)]
         ELSE FollowAlignment(strategy, source_token, candidates, c + 1, st)

\* The loop over the source tokens, from the k-th (one-based) on
RECURSIVE ScanSource(_, _, _, _, _)
ScanSource(strategy, source_tokens, alignment, k, st) ==
    IF k > Len(source_tokens) \/ st.raised # "" THEN st
    ELSE IF ~ _is_mask_token(strategy, source_tokens[k])
    THEN ScanSource(strategy, source_tokens, alignment, k + 1, st)
    ELSE IF alignment.none
    THEN [st EXCEPT !.raised = "TypeError"]
    ELSE IF (k - 1) \notin DOMAIN alignment.dict
    THEN [st EXCEPT !.raised = "KeyError"]
    ELSE ScanSource(strategy, source_tokens, alignment, k + 1,
                    FollowAlignment(strategy, source_tokens[k],
                                    alignment.dict[k - 1], 1, st))

\* unmask_segment: the segment returned, the caller's mapping as the call
\* leaves it, and the exception that ended the call ("" when it returned)
unmask_segment(strategy, source_segment, target_segment, mapping, alignment) ==
    LET returns(segment) == [segment |-> segment, mapping |-> mapping, raised |-> ""]
        mapping_masks == {mapping[i][1] : i \in 1..Len(mapping)}
    IN
    IF mapping = <<>> THEN returns(target_segment)
    ELSE IF strategy = MASKING_ALIGNMENT
    THEN IF Len(mapping) = Cardinality(mapping_masks)
         THEN returns(ReplaceInOrder(target_segment, mapping))
         ELSE LET st == ScanSource(strategy, Split(source_segment), alignment, 1,
                                   [target_tokens |-> Split(target_segment),
                                    mapping |-> mapping, raised |-> ""])
              IN [segment |-> IF st.raised = "" THEN Join(st.target_tokens)
                              ELSE target_segment,
                  mapping |-> st.mapping, raised |-> st.raised]
    ELSE IF strategy = MASKING_IDENTITY
    THEN returns(ReplaceInOrder(target_segment, mapping))
    ELSE returns(target_segment)

(***************************************************************************)
(* reinsertion.py: the kinds of tokens                                     *)
(***************************************************************************)
\* r'<[a-zA-Z_][^<>\/]*(".*")?[^\/<>]*>'
PatternOpeningTag ==
    Cat(<< Ch({"<"}), Ch(Lower \cup {"_"}),
           Rep(Ch(Alphabet \ {"<", ">", "/"}), 0),
           Opt(Cat(<< Ch({"\""}), Rep(Ch(Alphabet), 0), Ch({"\""}) >>)),
           Rep(Ch(Alphabet \ {"/", "<", ">"}), 0), Ch({">"}) >>)

\* r"<\/[a-zA-Z_][^\/<> ]* *>"
PatternClosingTag ==
    Cat(<< Ch({"<"}), Ch({"/"}), Ch(Lower \cup {"_"}),
           Rep(Ch(Alphabet \ {"/", "<", ">", " "}), 0), Rep(Ch({" "}), 0),
           Ch({">"}) >>)

\* r"<[a-zA-Z_][^\/<>]*\/>"
PatternSelfclosingTag ==
    Cat(<< Ch({"<"}), Ch(Lower \cup {"_"}),
           Rep(Ch(Alphabet \ {"/", "<", ">"}), 0), Ch({"/"}), Ch({">"}) >>)

\* "<[^<>]+>", the pattern of _tag_indexes_from_tokens
PatternAnyTag ==
    Cat(<< Ch({"<"}), Rep(Ch(Alphabet \ {"<", ">"}), 1), Ch({">"}) >>)

_is_opening_tag(token)     == Matches(PatternOpeningTag, token)
_is_closing_tag(token)     == Matches(PatternClosingTag, token)
_is_selfclosing_tag(token) == Matches(PatternSelfclosingTag, token)

is_xml_tag(token) ==
    _is_opening_tag(token) \/ _is_closing_tag(token) \/ _is_selfclosing_tag(token)

_tag_in_list(tokens) == \E k \in 1..Len(tokens) : is_xml_tag(tokens[k])

(***************************************************************************)
(* reinsertion.py: tokenize_keep_markup.  The SAX parser is modelled by    *)
(* the events it reports for a well-formed text of elements, attributes    *)
(* without ">" in their values, character data and predefined entities:    *)
(* character data is reported in one call up to the next tag or entity,    *)
(* and each entity in a call of its own.                                   *)
(***************************************************************************)
\* the predefined entities of XML
XmlEntities == <<
    << <<"&","a","m","p",";">>,         <<"&">> >>,
    << <<"&","l","t",";">>,             <<"<">> >>,
    << <<"&","g","t",";">>,             <<">">> >>,
    << <<"&","q","u","o","t",";">>,     <<"\"">> >>,
    << <<"&","a","p","o","s",";">>,     <<"'">> >> >>

\* xml.sax.saxutils.escape
SaxEscape(data) ==
    ReplaceAll(ReplaceAll(ReplaceAll(data, <<"&">>, <<"&","a","m","p",";">>),
                          <<">">>, <<"&","g","t",";">>),
               <<"<">>, <<"&","l","t",";">>)

\* xml.sax.saxutils.quoteattr, for values without line breaks and tabs
QuoteAttr(value) ==
    LET data == SaxEscape(value) IN
    IF Find(data, <<"\"">>, 1) # 0
    THEN IF Find(data, <<"'">>, 1) # 0
         THEN <<"\"">> \o ReplaceAll(data, <<"\"">>, <<"&","q","u","o","t",";">>)
              \o <<"\"">>
         ELSE <<"'">> \o data \o <<"'">>
    ELSE <<"\"">> \o data \o <<"\"">>

\* _get_string_from_attrs
_get_string_from_attrs(attrs) ==
    Join([k \in 1..Len(attrs) |->
             attrs[k].key \o <<"=">> \o QuoteAttr(attrs[k].value)])

\* the first position at or after i that holds no space
RECURSIVE SkipSpaces(_, _)
SkipSpaces(s, i) ==
    IF i <= Len(s) /\ s[i] = " " THEN SkipSpaces(s, i + 1) ELSE i

\* the first position at or after i that holds one of the characters, or
\* the position after the end
RECURSIVE Upto(_, _, _)
Upto(s, stop, i) ==
    IF i > Len(s) \/ s[i] \in stop THEN i ELSE Upto(s, stop, i + 1)

\* the attributes written in the body of a tag from position k on
RECURSIVE AttrsFrom(_, _)
AttrsFrom(body, k) ==
    LET a == SkipSpaces(body, k) IN
    IF a > Len(body) THEN <<>>
    ELSE LET eq    == Find(body, <<"=">>, a)
             close == Find(body, <<body[eq + 1]>>, eq + 2)
         IN << [key |-> SubSeq(body, a, eq - 1),
                value |-> SubSeq(body, eq + 2, close - 1)] >>
            \o AttrsFrom(body, close + 1)

\* the character an entity stands for
EntityChar(entity) ==
    XmlEntities[CHOOSE k \in 1..Len(XmlEntities) : XmlEntities[k][1] = entity][2]

\* the events the parser reports for the text from position i on
RECURSIVE SaxEvents(_, _)
SaxEvents(s, i) ==
    IF i > Len(s) THEN <<>>
    ELSE IF s[i] = "<"
    THEN LET j    == Find(s, <<">">>, i)
             body == SubSeq(s, i + 1, j - 1)
             n    == Upto(body, {" ", "/"}, 1)
             open == [e |-> "startElement", name |-> SubSeq(body, 1, n - 1),
                      attrs |-> AttrsFrom(IF body[Len(body)] = "/"
                                          THEN SubSeq(body, 1, Len(body) - 1)
                                          ELSE body, n)]
             end  == [e |-> "endElement", name |-> SubSeq(body, 1, n - 1)]
         IN IF body[1] = "/"
            THEN << [e |-> "endElement",
                     name |-> SubSeq(body, 2, Upto(body, {" "}, 2) - 1)] >>
                 \o SaxEvents(s, j + 1)
            ELSE IF body[Len(body)] = "/"
            THEN <<open, end>> \o SaxEvents(s, j + 1)
            ELSE <<open>> \o SaxEvents(s, j + 1)
    ELSE IF s[i] = "&"
    THEN LET j == Find(s, <<";">>, i)
         IN << [e |-> "characters", content |-> EntityChar(SubSeq(s, i, j))] >>
            \o SaxEvents(s, j + 1)
    ELSE LET j == Upto(s, {"<", "&"}, i)
         IN << [e |-> "characters", content |-> SubSeq(s, i, j - 1)] >>
            \o SaxEvents(s, j)

\* _NodesToListHandler._finish_pending_start_element
_finish_pending_start_element(h) ==
    IF h.pending
    THEN [nodes |-> [h.nodes EXCEPT ![Len(h.nodes)] = @ \o <<">">>],
          pending |-> FALSE]
    ELSE h

\* _NodesToListHandler.startElement
startElement(h, name, attrs) ==
    LET f == _finish_pending_start_element(h) IN
    [nodes |-> Append(f.nodes,
                      IF attrs # <<>>
                      THEN <<"<">> \o name \o <<" ">> \o _get_string_from_attrs(attrs)
                      ELSE <<"<">> \o name),
     pending |-> TRUE]

\* _NodesToListHandler.endElement
endElement(h, name) ==
    IF h.pending
    THEN [nodes |-> [h.nodes EXCEPT ![Len(h.nodes)] = @ \o <<"/", ">">>],
          pending |-> FALSE]
    ELSE [h EXCEPT !.nodes = Append(@, <<"<", "/">> \o name \o <<">">>)]

\* _NodesToListHandler.characters
characters(h, content) ==
    IF content = <<>> THEN h
    ELSE LET f == _finish_pending_start_element(h)
             tokens == Split(content)
         IN [f EXCEPT !.nodes = @ \o [k \in 1..Len(tokens) |-> SaxEscape(tokens[k])]]

\* the handler after the events from the k-th on
RECURSIVE Handle(_, _, _)
Handle(events, k, h) ==
    IF k > Len(events) THEN h
    ELSE LET ev == events[k] IN
         Handle(events, k + 1,
                CASE ev.e = "startElement" -> startElement(h, ev.name, ev.attrs)
                  [] ev.e = "endElement"   -> endElement(h, ev.name)
                  [] ev.e = "characters"   -> characters(h, ev.content))

\* _NodesToListHandler.return_nodes
return_nodes(h) ==
    SelectSeq(h.nodes, LAMBDA node : \E k \in 1..Len(node) : node[k] # " ")

tokenize_keep_markup(string) ==
    LET wrapped_string == <<"<","r","o","o","t",">">> \o string
                          \o <<"<","/","r","o","o","t",">">>
        nodes == return_nodes(Handle(SaxEvents(wrapped_string, 1), 1,
                                     [nodes |-> <<>>, pending |-> FALSE]))
    IN SubSeq(nodes, 2, Len(nodes) - 1)

\* The texts the parser accepts: every tag is closed, every entity is
\* predefined, closing tags name the element they close.
RECURSIVE Balanced(_, _, _)
Balanced(events, k, open) ==
    IF k > Len(events) THEN open = <<>>
    ELSE LET ev == events[k] IN
         CASE ev.e = "startElement" -> Balanced(events, k + 1, <<ev.name>> \o open)
           [] ev.e = "endElement" ->
                 open # <<>> /\ Head(open) = ev.name
                 /\ Balanced(events, k + 1, Tail(open))
           [] ev.e = "characters" -> Balanced(events, k + 1, open)

WellFormed(string) == Balanced(SaxEvents(string, 1), 1, <<>>)

(***************************************************************************)
(* reinsertion.py: what the engine reports.  A segmentation is the         *)
(* sequence of the items of a dictionary from source spans to target       *)
(* spans, in the order the dictionary enumerates them; an alignment is the *)
(* sequence of the items of a dictionary from source indexes to lists of   *)
(* target indexes, which is a defaultdict(list) or a plain dict.  Indexes  *)
(* are zero-based as in the code.                                          *)
(***************************************************************************)
\* the order of Python on tuples of two integers
TupleLess(a, b) == a[1] < b[1] \/ (a[1] = b[1] /\ a[2] < b[2])

\* sorted(target_phrases, key=lambda x: x[0]): by the source span
PhraseBySource(a, b) == TupleLess(a[1], b[1])

\* sorted(target_phrases, key=lambda x: x[1])
PhraseBefore(a, b) == TupleLess(a[2], b[2])

\* sorted(changes, key=lambda x: x[0]), not reversed
ChangeAscending(a, b) == a[1] < b[1]

\* sorted(changes, key=lambda x: x[0], reverse=True)
ChangeBefore(a, b) == a[1] > b[1]

\* the orders the code sorts by: tuples and keys as Python compares them,
\* phrases by their target span, changes by their index from the last on
Before(order, a, b) ==
    CASE order = "tuple"  -> TupleLess(a, b)
      [] order = "phrase" -> PhraseBefore(a, b)
      [] order = "change" -> ChangeBefore(a, b)
      [] order = "key"    -> a < b

\* sorted(seq) for one of the orders: stable
Sorted(seq, order) ==
    LET rank(i) == Cardinality({ j \in 1..Len(seq) :
                       \/ Before(order, seq[j], seq[i])
                       \/ (~ Before(order, seq[i], seq[j]) /\ j < i) }) + 1
    IN [p \in 1..Len(seq) |-> seq[CHOOSE i \in 1..Len(seq) : rank(i) = p]]

\* key in dictionary, for the items of a dictionary
HasKey(items, key) == \E k \in 1..Len(items) : items[k][1] = key

\* dictionary[key] for a key the dictionary has
ValueOf(items, key) == items[CHOOSE k \in 1..Len(items) : items[k][1] = key][2]

\* alignment[key]: the list, the alignment as the lookup leaves it (a
\* defaultdict gets the missing key with an empty list), and the exception
Lookup(alignment, key) ==
    IF HasKey(alignment.items, key)
    THEN [value |-> ValueOf(alignment.items, key), alignment |-> alignment,
          raised |-> ""]
    ELSE IF alignment.default
    THEN [value |-> <<>>,
          alignment |-> [alignment EXCEPT !.items = Append(@, <<key, <<>> >>)],
          raised |-> ""]
    ELSE [value |-> <<>>, alignment |-> alignment, raised |-> "KeyError"]

\* min and max of a non-empty list of integers
Min(list) == CHOOSE x \in {list[k] : k \in 1..Len(list)} :
                 \A k \in 1..Len(list) : x <= list[k]
Max(list) == CHOOSE x \in {list[k] : k \in 1..Len(list)} :
                 \A k \in 1..Len(list) : x >= list[k]

\* list.insert(index, item) for a zero-based index that is not negative
InsertAt(list, index, item) ==
    IF index >= Len(list) THEN Append(list, item)
    ELSE SubSeq(list, 1, index) \o <<item>> \o SubSeq(list, index + 1, Len(list))

(***************************************************************************)
(* reinsertion.py: Reinserter._next_source_tag_region                      *)
(***************************************************************************)
\* no tag: the closing of a self-closing tag, the opening before any is seen
NoTag == <<>>

\* One pass of the for loop over the working list, from the k-th token
\* (one-based) on.  It yields a triple and leaves the list without the
\* tags of the triple, or ends the program where a closing tag has no
\* opening tag before it, or ends without having yielded.
RECURSIVE ScanTokens(_, _, _, _, _)
ScanTokens(source_tokens, k, current_indexes, current_opening_tag, tags_seen_offset) ==
    IF k > Len(source_tokens) THEN [kind |-> "none"]
    ELSE LET source_index == k - 1
             source_token == source_tokens[k]
         IN
         IF _is_selfclosing_tag(source_token)
         THEN [kind |-> "yield",
               source_tokens |-> Del(source_tokens, k),
               opening |-> <<source_index - tags_seen_offset, source_token>>,
               region |-> <<>>,
               closing |-> NoTag]
         ELSE IF _is_closing_tag(source_token)
         THEN IF current_opening_tag = NoTag
              THEN [kind |-> "exit"]
              ELSE [kind |-> "yield",
                    source_tokens |->
                        Del(Del(source_tokens, k), current_opening_tag[1] + 1),
                    opening |-> <<current_opening_tag[1] - tags_seen_offset,
                                  current_opening_tag[2]>>,
                    region |-> current_indexes,
                    closing |-> <<source_index - tags_seen_offset, source_token>>]
         ELSE IF _is_opening_tag(source_token)
         THEN ScanTokens(source_tokens, k + 1, <<>>,
                         <<source_index, source_token>>, tags_seen_offset + 1)
         ELSE ScanTokens(source_tokens, k + 1,
                         IF current_opening_tag # NoTag
                         THEN Append(current_indexes, source_index - tags_seen_offset)
                         ELSE current_indexes,
                         current_opening_tag, tags_seen_offset)

\* The for loop without the reset of current_indexes at an opening tag
RECURSIVE ScanTokensKeepingIndexes(_, _, _, _, _)
ScanTokensKeepingIndexes(source_tokens, k, current_indexes, current_opening_tag, tags_seen_offset) ==
    IF k > Len(source_tokens) THEN [kind |-> "none"]
    ELSE LET source_index == k - 1
             source_token == source_tokens[k]
         IN
         IF _is_selfclosing_tag(source_token) \/ _is_closing_tag(source_token)
         THEN ScanTokens(source_tokens, k, current_indexes, current_opening_tag,
                         tags_seen_offset)
         ELSE IF _is_opening_tag(source_token)
         THEN ScanTokensKeepingIndexes(source_tokens, k + 1, current_indexes,
                         <<source_index, source_token>>, tags_seen_offset + 1)
         ELSE ScanTokensKeepingIndexes(source_tokens, k + 1,
                         IF current_opening_tag # NoTag
                         THEN Append(current_indexes, source_index - tags_seen_offset)
                         ELSE current_indexes,
                         current_opening_tag, tags_seen_offset)

NextRegionKeepingIndexes(source_tokens) ==
    ScanTokensKeepingIndexes(source_tokens, 1, <<>>, NoTag, 0)

\* the body of the while loop
_next_source_tag_region(source_tokens) == ScanTokens(source_tokens, 1, <<>>, NoTag, 0)

(***************************************************************************)
(* reinsertion.py: Reinserter._reinsert_markup_full                        *)
(***************************************************************************)
\* The loop of _find_source_phrase_regions over the segmentation from its
\* k-th item on
RECURSIVE FindPhrases(_, _, _, _)
FindPhrases(source_tag_region, segmentation, k, source_phrase_region) ==
    IF k > Len(segmentation) THEN source_phrase_region
    ELSE LET start == segmentation[k][1][1]
             end   == segmentation[k][1][2]
             phrase_collected ==
                 \E i \in 1..Len(source_tag_region) :
                     start <= source_tag_region[i] /\ source_tag_region[i] <= end
         IN IF phrase_collected
            THEN FindPhrases(source_tag_region, segmentation, k + 1,
                             Append(source_phrase_region, <<start, end>>))
            ELSE IF source_phrase_region # <<>>
            THEN source_phrase_region
            ELSE FindPhrases(source_tag_region, segmentation, k + 1,
                             source_phrase_region)

_find_source_phrase_regions(source_tag_region, segmentation) ==
    Sorted(FindPhrases(source_tag_region, segmentation, 1, <<>>), "tuple")

_find_target_covering_phrases(source_phrase_regions, segmentation) ==
    [k \in 1..Len(source_phrase_regions) |->
        ValueOf(segmentation, source_phrase_regions[k])]

\* for two non-empty lists
_str_spr_coincide(source_tag_region, source_phrase_regions) ==
    /\ source_tag_region[1] = source_phrase_regions[1][1]
    /\ source_tag_region[Len(source_tag_region)]
          = source_phrase_regions[Len(source_phrase_regions)][2]

_tcp_is_contiguous(target_covering_phrases) ==
    \A k \in 2..Len(target_covering_phrases) :
        target_covering_phrases[k - 1][2] = target_covering_phrases[k][1] - 1

\* relevant_alignments.extend(alignment[index]) for the indexes of the
\* region from the k-th on; st holds the alignment, the list and the
\* exception
RECURSIVE RelevantAlignments(_, _, _)
RelevantAlignments(source_tag_region, k, st) ==
    IF k > Len(source_tag_region) \/ st.raised # "" THEN st
    ELSE LET got == Lookup(st.alignment, source_tag_region[k]) IN
         RelevantAlignments(source_tag_region, k + 1,
             [alignment |-> got.alignment,
              relevant_alignments |-> st.relevant_alignments \o got.value,
              raised |-> got.raised])

\* the first of the phrases, whatever its start
FirstPhrase(phrases) == phrases[1]

\* min(phrases, key=lambda x: x[0]) and max(phrases, key=lambda x: x[1]):
\* the first of the phrases with the least start, the greatest end
Leftmost(phrases) ==
    phrases[CHOOSE k \in 1..Len(phrases) :
                /\ \A j \in 1..Len(phrases) : phrases[k][1] <= phrases[j][1]
                /\ \A j \in 1..(k - 1) : phrases[j][1] # phrases[k][1]]
Rightmost(phrases) ==
    phrases[CHOOSE k \in 1..Len(phrases) :
                /\ \A j \in 1..Len(phrases) : phrases[k][2] >= phrases[j][2]
                /\ \A j \in 1..(k - 1) : phrases[j][2] # phrases[k][2]]

\* The body of the loop over the triples of the generator: the changes a
\* triple adds.  st holds the changes, the alignment and the exception.
Place(opening, source_tag_region, closing, target_tokens, segmentation, st) ==
    LET opening_index == opening[1]
        opening_tag   == opening[2]
        closing_tag   == closing[2]
        add(changes)  == [st EXCEPT !.changes = @ \o changes]
    IN
    IF closing = NoTag
    THEN LET got == Lookup(st.alignment, opening_index) IN
         IF got.raised # "" THEN [st EXCEPT !.raised = got.raised]
         ELSE [changes |-> Append(st.changes,
                   << IF got.value = <<>> THEN Len(target_tokens) ELSE got.value[1],
                      opening_tag >>),
               alignment |-> got.alignment, raised |-> ""]
    ELSE IF source_tag_region = <<>>
    THEN LET got == Lookup(st.alignment, opening_index) IN
         IF got.raised # "" THEN [st EXCEPT !.raised = got.raised]
         ELSE IF got.value = <<>>
         THEN [st EXCEPT !.alignment = got.alignment, !.raised = "IndexError"]
         ELSE [changes |-> Append(st.changes,
                   << got.value[1] + 1, opening_tag \o <<" ">> \o closing_tag >>),
               alignment |-> got.alignment, raised |-> ""]
    ELSE LET source_phrase_regions ==
                 _find_source_phrase_regions(source_tag_region, segmentation)
             target_covering_phrases ==
                 _find_target_covering_phrases(source_phrase_regions, segmentation)
         IN
         IF source_phrase_regions = <<>>
         THEN [st EXCEPT !.raised = "IndexError"]
         ELSE IF _str_spr_coincide(source_tag_region, source_phrase_regions)
         THEN IF _tcp_is_contiguous(target_covering_phrases)
              THEN add(<< << target_covering_phrases[Len(target_covering_phrases)][2] + 1,
                             closing_tag >>,
                          << target_covering_phrases[1][1], opening_tag >> >>)
              ELSE add(<< << Leftmost(target_covering_phrases)[1], opening_tag >>,
                          << Rightmost(target_covering_phrases)[2] + 1, closing_tag >> >>)
         ELSE LET rel == RelevantAlignments(source_tag_region, 1,
                             [alignment |-> st.alignment,
                              relevant_alignments |-> <<>>, raised |-> ""])
                  relevant_alignments == rel.relevant_alignments
                  aligned == {relevant_alignments[k] : k \in 1..Len(relevant_alignments)}
                  after == [st EXCEPT !.alignment = rel.alignment]
              IN
              IF rel.raised # "" THEN [after EXCEPT !.raised = rel.raised]
              ELSE IF _tcp_is_contiguous(target_covering_phrases)
              THEN [after EXCEPT !.changes = @ \o
                       << << IF relevant_alignments = <<>> THEN Len(target_tokens)
                             ELSE Min(relevant_alignments), opening_tag >>,
                          << IF relevant_alignments = <<>> THEN Len(target_tokens) + 1
                             ELSE Max(relevant_alignments) + 1, closing_tag >> >>]
              ELSE LET left  == Leftmost(target_covering_phrases)
                       right == Rightmost(target_covering_phrases)
                       first == (left[1]..left[2]) \cap aligned
                       last  == (right[1]..right[2]) \cap aligned
                   IN [after EXCEPT !.changes = @
                         \o (IF first = {} THEN <<>>
                             ELSE << << CHOOSE x \in first : \A y \in first : x <= y,
                                        opening_tag >> >>)
                         \o (IF last = {} THEN <<>>
                             ELSE << << CHOOSE x \in last : \A y \in last : x >= y,
                                        closing_tag >> >>)]

\* The loop over the triples the generator yields for the working list
RECURSIVE PlaceAll(_, _, _, _)
PlaceAll(source_tokens, target_tokens, segmentation, st) ==
    IF st.raised # "" \/ ~ _tag_in_list(source_tokens) THEN st
    ELSE LET step == _next_source_tag_region(source_tokens) IN
         IF step.kind = "exit" THEN [st EXCEPT !.raised = "SystemExit"]
         ELSE IF step.kind = "none" THEN [st EXCEPT !.raised = "no return"]
         ELSE PlaceAll(step.source_tokens, target_tokens, segmentation,
                       Place(step.opening, step.region, step.closing,
                             target_tokens, segmentation, st))

\* target_tokens.insert(insert_at, tag) for the changes from the k-th on
RECURSIVE InsertAll(_, _, _)
InsertAll(target_tokens, changes, k) ==
    IF k > Len(changes) THEN target_tokens
    ELSE InsertAll(InsertAt(target_tokens, changes[k][1], changes[k][2]),
                   changes, k + 1)


\* the segment returned, the alignment as the call leaves it and the
\* exception that ended the call ("" when it returned)
_reinsert_markup_full(source_segment, target_segment, segmentation, alignment) ==
    LET source_tokens == tokenize_keep_markup(source_segment)
        target_tokens == Split(target_segment)
        st == PlaceAll(source_tokens, target_tokens, segmentation,
                       [changes |-> <<>>, alignment |-> alignment, raised |-> ""])
    IN [segment |-> IF st.raised # "" THEN <<>>
                    ELSE Join(InsertAll(target_tokens,
                                        Sorted(st.changes, "change"), 1)),
        alignment |-> st.alignment,
        raised |-> st.raised]

(***************************************************************************)
(* reinsertion.py: the tags of the source by position.  A defaultdict(list)*)
(* is the sequence of its items, in the order the keys were added.         *)
(***************************************************************************)
\* elements_by_position[key].append(token)
AppendAt(items, key, token) ==
    IF HasKey(items, key)
    THEN [k \in 1..Len(items) |->
             IF items[k][1] = key THEN <<key, Append(items[k][2], token)>>
             ELSE items[k]]
    ELSE Append(items, <<key, <<token>> >>)

\* the del forgotten: the key keeps its tags
WithoutDeleting(items, key) == items

\* del elements_by_position[key]
Without(items, key) == SelectSeq(items, LAMBDA item : item[1] # key)

\* sorted(elements_by_position.keys())
SortedKeys(items) ==
    Sorted([k \in 1..Len(items) |-> items[k][1]], "key")

\* for key in sorted(elements_by_position.keys()):
\*     output_tokens.extend(elements_by_position[key])
Remaining(items) ==
    Concat([k \in 1..Len(items) |-> ValueOf(items, SortedKeys(items)[k])])

\* _tag_indexes_from_tokens, from the k-th token (one-based) on
RECURSIVE TagIndexes(_, _, _, _)
TagIndexes(source_tokens, k, tags_seen_offset, elements_by_position) ==
    IF k > Len(source_tokens) THEN elements_by_position
    ELSE IF Matches(PatternAnyTag, source_tokens[k])
    THEN TagIndexes(source_tokens, k + 1, tags_seen_offset + 1,
                    AppendAt(elements_by_position, (k - 1) - tags_seen_offset,
                             source_tokens[k]))
    ELSE TagIndexes(source_tokens, k + 1, tags_seen_offset, elements_by_position)

\* a tag keyed by the index of the word before it
TagIndexesOfWordBefore(source_tokens) == TagIndexes(source_tokens, 1, 1, <<>>)

_tag_indexes_from_tokens(source_tokens) == TagIndexes(source_tokens, 1, 0, <<>>)

\* _tag_indexes_from_tokens_segmentation, from the k-th token on; by holds
\* opening_elements_by_position and closing_elements_by_position
RECURSIVE TagIndexesSegmentation(_, _, _, _)
TagIndexesSegmentation(source_tokens, k, tags_seen_offset, by) ==
    IF k > Len(source_tokens) THEN by
    ELSE LET source_token == source_tokens[k] IN
         IF _is_opening_tag(source_token) \/ _is_selfclosing_tag(source_token)
         THEN TagIndexesSegmentation(source_tokens, k + 1, tags_seen_offset + 1,
                  [by EXCEPT !.opening =
                      AppendAt(@, (k - 1) - tags_seen_offset, source_token)])
         ELSE IF _is_closing_tag(source_token)
         THEN TagIndexesSegmentation(source_tokens, k + 1, tags_seen_offset + 1,
                  [by EXCEPT !.closing =
                      AppendAt(@, (k - 1) - tags_seen_offset - 1, source_token)])
         ELSE TagIndexesSegmentation(source_tokens, k + 1, tags_seen_offset, by)

_tag_indexes_from_tokens_segmentation(source_tokens) ==
    TagIndexesSegmentation(source_tokens, 1, 0, [opening |-> <<>>, closing |-> <<>>])

(***************************************************************************)
(* reinsertion.py: Reinserter._reinsert_markup_segmentation                *)
(***************************************************************************)
\* target_tokens[start:end]: the end taken as exclusive
SliceExclusive(tokens, start, end) ==
    SubSeq(tokens, start + 1, IF end > Len(tokens) THEN Len(tokens) ELSE end)

\* target_tokens[start:end+1] for indexes that are not negative
Slice(tokens, start, end) ==
    SubSeq(tokens, start + 1, IF end + 1 > Len(tokens) THEN Len(tokens) ELSE end + 1)

\* The loop over the source indexes of one phrase, from index on: st holds
\* the two dictionaries, open_now and close_now
RECURSIVE CollectTags(_, _, _)
CollectTags(index, end, st) ==
    IF index > end THEN st
    ELSE LET opened ==
                 IF HasKey(st.opening, index)
                 THEN [st EXCEPT !.open_now = @ \o ValueOf(st.opening, index),
                                 !.opening = Without(@, index)]
                 ELSE st
             closed ==
                 IF HasKey(opened.closing, index)
                 THEN [opened EXCEPT !.close_now = @ \o ValueOf(opened.closing, index),
                                     !.closing = Without(@, index)]
                 ELSE opened
         IN CollectTags(index + 1, end, closed)

\* The loop over the target phrases from the k-th on: st holds the two
\* dictionaries and output_tokens
RECURSIVE EmitPhrases(_, _, _, _)
EmitPhrases(target_phrases, target_tokens, k, st) ==
    IF k > Len(target_phrases) THEN st
    ELSE LET source == target_phrases[k][1]
             target == target_phrases[k][2]
             now == CollectTags(source[1], source[2],
                        [opening |-> st.opening, closing |-> st.closing,
                         open_now |-> <<>>, close_now |-> <<>>])
         IN EmitPhrases(target_phrases, target_tokens, k + 1,
                [opening |-> now.opening, closing |-> now.closing,
                 output_tokens |-> st.output_tokens \o now.open_now
                     \o Slice(target_tokens, target[1], target[2])
                     \o now.close_now])


\* the remaining closing tags appended before the remaining opening tags
SegmentationClosingFirst(force_all, source_segment, target_segment, segmentation) ==
    LET source_tokens == tokenize_keep_markup(source_segment)
        target_tokens == Split(target_segment)
        by == _tag_indexes_from_tokens_segmentation(source_tokens)
        st == EmitPhrases(Sorted(segmentation, "phrase"), target_tokens, 1,
                          [opening |-> by.opening, closing |-> by.closing,
                           output_tokens |-> <<>>])
    IN Join(st.output_tokens
            \o (IF force_all THEN Remaining(st.closing) \o Remaining(st.opening)
                ELSE <<>>))

_reinsert_markup_segmentation(force_all, source_segment, target_segment, segmentation) ==
    LET source_tokens == tokenize_keep_markup(source_segment)
        target_tokens == Split(target_segment)
        by == _tag_indexes_from_tokens_segmentation(source_tokens)
        st == EmitPhrases(Sorted(segmentation, "phrase"), target_tokens, 1,
                          [opening |-> by.opening, closing |-> by.closing,
                           output_tokens |-> <<>>])
    IN Join(st.output_tokens
            \o (IF force_all THEN Remaining(st.opening) \o Remaining(st.closing)
                ELSE <<>>))

(***************************************************************************)
(* reinsertion.py: Reinserter._reinsert_markup_alignment                   *)
(***************************************************************************)
\* target_to_source_alignment: the source of the last item of the alignment
\* that lists the target, -1 where no item lists it (KeyError in the code)
SourceOf(items, target) ==
    LET listing == { k \in 1..Len(items) :
                        \E j \in 1..Len(items[k][2]) : items[k][2][j] = target }
    IN IF listing = {} THEN -1
       ELSE items[CHOOSE k \in listing : \A j \in listing : j <= k][1]

\* The loop over the target tokens from the k-th (one-based) on: st holds
\* elements_by_position and output_tokens
RECURSIVE EmitTokens(_, _, _, _)
EmitTokens(target_tokens, items, k, st) ==
    IF k > Len(target_tokens) THEN st
    ELSE LET source_index == SourceOf(items, k - 1)
             found == source_index # -1 /\ HasKey(st.elements, source_index)
         IN EmitTokens(target_tokens, items, k + 1,
                [elements |-> IF found THEN Without(st.elements, source_index)
                              ELSE st.elements,
                 output_tokens |->
                     st.output_tokens
                     \o (IF found THEN ValueOf(st.elements, source_index) ELSE <<>>)
                     \o <<target_tokens[k]>>])

_reinsert_markup_alignment(force_all, source_segment, target_segment, alignment) ==
    LET source_tokens == tokenize_keep_markup(source_segment)
        target_tokens == Split(target_segment)
        st == EmitTokens(target_tokens, alignment.items, 1,
                         [elements |-> _tag_indexes_from_tokens(source_tokens),
                          output_tokens |-> <<>>])
        last_index == Len(target_tokens)
        at_last == HasKey(st.elements, last_index)
        left == IF at_last THEN Without(st.elements, last_index) ELSE st.elements
    IN Join(st.output_tokens
            \o (IF at_last THEN ValueOf(st.elements, last_index) ELSE <<>>)
            \o (IF force_all THEN Remaining(left) ELSE <<>>))

(***************************************************************************)
(* reinsertion.py: Reinserter.reinsert_markup                              *)
(***************************************************************************)
\* the segment returned, the alignment as the call leaves it and the
\* exception that ended the call ("" when it returned)
reinsert_markup(reinsertion_strategy, force_all, source_segment, target_segment, segmentation, alignment) ==
    IF reinsertion_strategy = REINSERTION_FULL
    THEN _reinsert_markup_full(source_segment, target_segment, segmentation, alignment)
    ELSE IF reinsertion_strategy = REINSERTION_SEGMENTATION
    THEN [segment |-> _reinsert_markup_segmentation(force_all, source_segment,
                                                    target_segment, segmentation),
          alignment |-> alignment, raised |-> ""]
    ELSE IF reinsertion_strategy = REINSERTION_ALIGNMENT
    THEN [segment |-> _reinsert_markup_alignment(force_all, source_segment,
                                                 target_segment, alignment),
          alignment |-> alignment, raised |-> ""]
    ELSE [segment |-> <<>>, alignment |-> alignment, raised |-> "NotImplementedError"]

(***************************************************************************)
(* Inputs                                                                  *)
(***************************************************************************)
\* the most tokens a segment has
MaxTokens == 3

\* The tokens segments are made of: an opening and a closing tag, an e-mail
\* address, an e-mail address whose local part is a tag, a URL, and text
\* that reads as an entity followed by a reserved character.
Words == {
    <<"<","b",">">>,
    <<"<","/","b",">">>,
    <<"a","@","b",".","c","c">>,
    <<"<","b",">","@","b",".","c","c">>,
    <<"w","w","w",".","a",".","b","c">>,
    <<"&","l","t",";","[">> }

Segments ==
    UNION { {Join(tokens) : tokens \in [1..n -> Words]} : n \in 1..MaxTokens }

\* the most pieces a text handed to the cleaner has
MaxPieces == 3

\* The pieces texts are made of: reserved characters, entities, and what
\* follows the ampersand in an entity.
Pieces == {
    <<"&">>, <<"<">>, <<"[">>, <<"a","m","p",";">>, <<"l","t",";">>,
    <<"#","9","1",";">>, <<"&","a","m","p",";">>, <<"&","l","t",";">> }

Texts ==
    UNION { {Concat(pieces) : pieces \in [1..n -> Pieces]} : n \in 1..MaxPieces }

\* a Masker can be built with any strategy name
Strategies == {MASKING_IDENTITY, MASKING_ALIGNMENT, "unknown"}

\* The orders in which the translation returns the n source tokens: order[i]
\* is the (one-based) target position of the i-th source token.
Orders(n) == { [i \in 1..n |-> i], [i \in 1..n |-> n + 1 - i] }

\* the alignment that links every source token to its counterpart
Counterparts(n, order) == [i \in 0..(n - 1) |-> <<order[i + 1] - 1>>]

\* What the engine reports with a translation of n tokens: the tokens in
\* either order with the alignment of the counterparts, and for the tokens
\* in source order also no alignment, the alignment with the key k missing,
\* with k aligned outside the target, or with another target index listed
\* before k's counterpart.
Translations(n) ==
    LET same == [i \in 1..n |-> i]
        full == Counterparts(n, same)
    IN { [order |-> order, alignment |-> Dict(Counterparts(n, order))] :
            order \in Orders(n) }
       \cup { [order |-> same, alignment |-> None] }
       \cup { [order |-> same,
               alignment |-> Dict([i \in (0..(n - 1)) \ {k} |-> full[i]])] :
                k \in 0..(n - 1) }
       \cup { [order |-> same, alignment |-> Dict([full EXCEPT ![k] = <<n>>])] :
                k \in 0..(n - 1) }
       \cup { [order |-> same,
               alignment |-> Dict([full EXCEPT ![k] = <<(k + 1) % n, k>>])] :
                k \in 0..(n - 1) }

(***************************************************************************)
(* Inputs of the Reinserter                                                *)
(***************************************************************************)
\* the most tokens a source segment handed to the Reinserter has, tags
\* included
MaxSourceTokens == 5

\* the most tokens a translation has
MaxTargetTokens == 2

\* The tokens source segments are made of: a word, the tags of an element
\* and a self-closing tag.
SourceWords == {
    <<"x">>,
    <<"<","b",">">>,
    <<"<","/","b",">">>,
    <<"<","i","/",">">> }

\* The source segments: well-formed, as xml.sax.parseString raises for any
\* other, and with a word to translate.
Sources ==
    { source \in UNION { {Join(tokens) : tokens \in [1..n -> SourceWords]} :
                            n \in 1..MaxSourceTokens } :
        /\ WellFormed(source)
        /\ \E k \in 1..Len(source) : source[k] = "x" }

\* the j-th token (zero-based) of a translation, and a translation of m
\* tokens
TargetToken(j) == <<"t">> \o Decimal(j)
Translation(m) == Join([j \in 1..m |-> TargetToken(j - 1)])

\* the elements of a set of integers in increasing order
Ascending(set) ==
    [p \in 1..Cardinality(set) |->
        CHOOSE x \in set : Cardinality({y \in set : y < x}) = p - 1]

\* The ways to cut n tokens into contiguous spans (start, end), the spans in
\* order: one for each set of places to cut at.
Cuts(n) ==
    { LET starts == Ascending({0} \cup cuts) IN
      [p \in 1..Len(starts) |->
          <<starts[p], IF p = Len(starts) THEN n - 1 ELSE starts[p + 1] - 1>>] :
      cuts \in SUBSET (1..(n - 1)) }

\* the orders of k things
Enumerations(k) ==
    { order \in [1..k -> 1..k] : \A i, j \in 1..k : order[i] = order[j] => i = j }

\* The other orders a dictionary of the same items enumerates them in:
\* the reverse, and the first item last.
Reorderings(seq) ==
    { [p \in 1..Len(seq) |-> seq[Len(seq) + 1 - p]],
      [p \in 1..Len(seq) |-> seq[(p % Len(seq)) + 1]] }

\* The segmentations the engine reports for n source tokens and m target
\* tokens: the source spans and the target spans each cut their sentence,
\* each source span has one target span, and the dictionary enumerates the
\* items in the order of the target, as the decoder writes the phrases.
Segmentations(n, m) ==
    UNION { { Sorted([p \in 1..Len(source) |-> <<source[p], target[order[p]]>>],
                     "phrase") :
                order \in Enumerations(Len(source)) } :
            <<source, target>> \in
                { st \in Cuts(n) \X Cuts(m) : Len(st[1]) = Len(st[2]) } }

\* The alignments the engine reports for n source tokens and m target
\* tokens, as the items of the dictionary in the order of the keys: every
\* source token aligned to the target token of its position (the last where
\* the translation is shorter), or of its position from the end; no token
\* aligned; and for the first of these also the key k missing, k with an
\* empty list, and k with a second target index listed first.
Alignments(n, m) ==
    LET last == m - 1
        same == [i \in 1..n |-> <<i - 1, << IF i - 1 < last THEN i - 1 ELSE last >> >>]
        back == [i \in 1..n |-> <<i - 1, << IF i - 1 < last THEN last - (i - 1) ELSE 0 >> >>]
    IN {same, back, <<>>}
       \cup { SelectSeq(same, LAMBDA item : item[1] # k) : k \in 0..(n - 1) }
       \cup { [same EXCEPT ![k + 1] = <<k, <<>> >>] : k \in 0..(n - 1) }
       \cup { [same EXCEPT ![k + 1] = <<k, <<(same[k + 1][2][1] + 1) % m>> \o @[2]>>] :
                k \in 0..(n - 1) }

(***************************************************************************)
(* State                                                                   *)
(***************************************************************************)
VARIABLES
    strategy,    \* Masker._strategy
    escape,      \* Masker._escape
    segment,     \* the input text
    masked,      \* the segment mask_segment returned
    mapping,     \* the list mask_segment returned, as the caller holds it
    target,      \* the translated segment
    alignment,   \* the alignment passed to unmask_segment
    result,      \* the segment unmask_segment returned
    raised,      \* the exception that ended unmask_segment, "" if none
    escaped,     \* what escape_special_chars returned
    deescaped,   \* what deescape_special_chars returned
    reinsertion_strategy,  \* Reinserter._reinsertion_strategy
    force_all,             \* Reinserter._force_all
    source_segment,        \* the source segment, with its markup
    translated_segment,    \* what the engine returned: the translation, the
                           \* segmentation and the alignment
    reinserted,            \* what reinsert_markup returned or raised
    again,                 \* the same of a second call with equal arguments
    working_tokens,        \* source_tokens, the working list of
                           \* _next_source_tag_region
    regions,               \* the triples the generator has yielded
    changes,               \* changes, the list of _reinsert_markup_full
    placed,                \* what each pass of the loop of
                           \* _reinsert_markup_full worked with
    pc           \* what has been called so far

maskerVars == <<strategy, escape, segment, masked, mapping, target, alignment,
                result, raised, escaped, deescaped>>

placementVars == <<changes, placed>>

reinserterVars == <<reinsertion_strategy, force_all, source_segment,
                    translated_segment, reinserted, again, working_tokens, regions,
                    placementVars>>

vars == <<maskerVars, reinserterVars, pc>>

\* no Reinserter is built
NoReinserter ==
    /\ reinsertion_strategy = ""
    /\ force_all = FALSE
    /\ source_segment = <<>>
    /\ translated_segment = None
    /\ reinserted = None
    /\ again = None
    /\ working_tokens = <<>>
    /\ regions = <<>>
    /\ changes = <<>>
    /\ placed = <<>>

\* Either a segment to translate, no Masker being built yet, or a text for
\* the cleaner.
Init ==
    /\ strategy = ""
    /\ escape = FALSE
    /\ \/ segment \in Segments /\ pc = "start"
       \/ segment \in Texts /\ pc = "text"
    /\ masked = <<>>
    /\ mapping = <<>>
    /\ target = <<>>
    /\ alignment = None
    /\ result = <<>>
    /\ raised = ""
    /\ escaped = <<>>
    /\ deescaped = <<>>
    /\ NoReinserter

\* Masker(strategy, escape): the strategy name is stored as it is given
NewMasker ==
    /\ pc = "start"
    /\ strategy' \in Strategies
    /\ escape' \in BOOLEAN
    /\ pc' = "ready"
    /\ UNCHANGED <<segment, masked, mapping, target, alignment, result, raised,
                   escaped, deescaped>>
    /\ UNCHANGED reinserterVars

\* segment, mapping = masker.mask_segment(segment)
MaskSegment ==
    /\ pc = "ready"
    /\ LET r == mask_segment(strategy, escape, segment) IN
           /\ masked' = r.segment
           /\ mapping' = r.mapping
    /\ pc' = "masked"
    /\ UNCHANGED <<strategy, escape, segment, target, alignment, result, raised,
                   escaped, deescaped>>
    /\ UNCHANGED reinserterVars

\* The translation engine returns the tokens of the masked segment in some
\* order, and reports an alignment.  Only a Masker of the shared-symbol
\* strategy is handed the alignment.
Translate ==
    /\ pc = "masked"
    /\ LET source_tokens == Split(masked)
           n == Len(source_tokens)
       IN \E t \in Translations(n) :
            /\ strategy # MASKING_ALIGNMENT => t.alignment \in {None, Dict(Counterparts(n, t.order))}
            /\ target' = Join([j \in 1..n |->
                    source_tokens[CHOOSE i \in 1..n : t.order[i] = j]])
            /\ alignment' = IF strategy = MASKING_ALIGNMENT THEN t.alignment ELSE None
    /\ pc' = "translated"
    /\ UNCHANGED <<strategy, escape, segment, masked, mapping, result, raised,
                   escaped, deescaped>>
    /\ UNCHANGED reinserterVars

\* masker.unmask_segment(masked, target, mapping, alignment)
UnmaskSegment ==
    /\ pc = "translated"
    /\ LET r == unmask_segment(strategy, masked, target, mapping, alignment) IN
           /\ result' = r.segment
           /\ mapping' = r.mapping
           /\ raised' = r.raised
    /\ pc' = "done"
    /\ UNCHANGED <<strategy, escape, segment, masked, target, alignment,
                   escaped, deescaped>>
    /\ UNCHANGED reinserterVars

\* cleaner.escape_special_chars(segment)
EscapeSpecialChars ==
    /\ pc = "text"
    /\ escaped' = escape_special_chars(segment)
    /\ pc' = "escaped"
    /\ UNCHANGED <<strategy, escape, segment, masked, mapping, target, alignment,
                   result, raised, deescaped>>
    /\ UNCHANGED reinserterVars

\* cleaner.deescape_special_chars(escaped)
DeescapeSpecialChars ==
    /\ pc = "escaped"
    /\ deescaped' = deescape_special_chars(escaped)
    /\ pc' = "deescaped"
    /\ UNCHANGED <<strategy, escape, segment, masked, mapping, target, alignment,
                   result, raised, escaped>>
    /\ UNCHANGED reinserterVars

Next ==
    \/ NewMasker
    \/ MaskSegment
    \/ Translate
    \/ UnmaskSegment
    \/ EscapeSpecialChars
    \/ DeescapeSpecialChars

Spec == Init /\ [][Next]_vars

(***************************************************************************)
(* State of the Reinserter                                                 *)
(***************************************************************************)
\* no Masker is built and the cleaner has no text
NoMasker ==
    /\ strategy = ""
    /\ escape = FALSE
    /\ segment = <<>>
    /\ masked = <<>>
    /\ mapping = <<>>
    /\ target = <<>>
    /\ alignment = None
    /\ result = <<>>
    /\ raised = ""
    /\ escaped = <<>>
    /\ deescaped = <<>>

\* Reinserter(reinsertion_strategy, force_all), with a source segment to
\* translate
NewReinserter(strategies) ==
    /\ NoMasker
    /\ reinsertion_strategy \in strategies
    /\ force_all \in BOOLEAN
    /\ source_segment \in Sources
    /\ translated_segment = None
    /\ reinserted = None
    /\ again = None
    /\ working_tokens = <<>>
    /\ regions = <<>>
    /\ changes = <<>>
    /\ placed = <<>>
    /\ pc = "constructed"

InitReinserter == NewReinserter({REINSERTION_SEGMENTATION, REINSERTION_ALIGNMENT})

InitFull == NewReinserter({REINSERTION_FULL})

\* the tokens of a source segment that are no tags
Content(tokens) == SelectSeq(tokens, LAMBDA token : ~ is_xml_tag(token))

\* translated_segment = self._engine.translate_segment(segment): the engine
\* is handed the segment without its markup and returns a translation with
\* a segmentation and an alignment.  The report a strategy does not read is
\* the plainest one: one phrase, every token aligned to its counterpart.
TranslateSegment ==
    /\ pc = "constructed"
    /\ LET n == Len(Content(Split(source_segment))) IN
       \E m \in 1..MaxTargetTokens :
       \E segmentation \in Segmentations(n, m) :
       \E items \in Alignments(n, m) :
       \E default \in BOOLEAN :
          /\ reinsertion_strategy = REINSERTION_ALIGNMENT =>
                /\ default
                /\ segmentation = << <<<<0, n - 1>>, <<0, m - 1>>>> >>
          /\ reinsertion_strategy = REINSERTION_SEGMENTATION =>
                /\ default
                /\ items = [i \in 1..n |-> <<i - 1, << IF i < m THEN i - 1 ELSE m - 1 >> >>]
          /\ translated_segment' =
                [translation  |-> Translation(m),
                 segmentation |-> segmentation,
                 alignment    |-> [default |-> default, items |-> items]]
    /\ pc' = "segment translated"
    /\ UNCHANGED <<reinsertion_strategy, force_all, source_segment, reinserted,
                   again, working_tokens, regions>>
    /\ UNCHANGED placementVars
    /\ UNCHANGED maskerVars

\* reinserter.reinsert_markup(source_segment, translation, segmentation,
\* alignment); the caller's alignment is left as the call leaves it
ReinsertMarkup ==
    /\ pc = "segment translated"
    /\ \E r \in { reinsert_markup(reinsertion_strategy, force_all, source_segment,
                                   translated_segment.translation,
                                   translated_segment.segmentation,
                                   translated_segment.alignment) } :
          /\ reinserted' = [segment |-> r.segment, raised |-> r.raised]
          /\ translated_segment' = [translated_segment EXCEPT !.alignment = r.alignment]
    /\ pc' = "reinserted"
    /\ UNCHANGED <<reinsertion_strategy, force_all, source_segment, again,
                   working_tokens, regions>>
    /\ UNCHANGED placementVars
    /\ UNCHANGED maskerVars

\* A second call with the same source, the same target, and a segmentation
\* and an alignment of the same entries as the engine reported, which the
\* dictionaries enumerate in any order.
ReinsertMarkupAgain ==
    /\ pc = "reinserted"
    /\ LET segmentation == translated_segment.segmentation
           reported == translated_segment.alignment
       IN \E first \in Reorderings(segmentation) :
          \E second \in Reorderings(reported.items) :
          \E r \in { reinsert_markup(reinsertion_strategy, force_all, source_segment,
                                      translated_segment.translation, first,
                                      [reported EXCEPT !.items = second]) } :
             again' = [segment |-> r.segment, raised |-> r.raised]
    /\ pc' = "reinserted again"
    /\ UNCHANGED <<reinsertion_strategy, force_all, source_segment,
                   translated_segment, reinserted, working_tokens, regions>>
    /\ UNCHANGED placementVars
    /\ UNCHANGED maskerVars

NextReinserter ==
    \/ TranslateSegment
    \/ ReinsertMarkup
    \/ ReinsertMarkupAgain

SpecReinserter == InitReinserter /\ [][NextReinserter]_vars

\* the full strategy, called once
NextFull ==
    \/ TranslateSegment
    \/ ReinsertMarkup

SpecFull == InitFull /\ [][NextFull]_vars

(***************************************************************************)
(* State of the tokenizer and of the scan for tag regions                  *)
(***************************************************************************)
\* the most pieces a segment of markup has
MaxMarkupPieces == 3

\* The pieces segments of markup are made of: a word, a space, the tags of
\* an element, an opening tag with an attribute whose value holds a space,
\* a self-closing tag and an entity.
MarkupPieces == {
    <<"x">>,
    <<" ">>,
    <<"<","b",">">>,
    <<"<","/","b",">">>,
    <<"<","b"," ","c","=","\"","d"," ","e","\"",">">>,
    <<"<","i","/",">">>,
    <<"&","a","m","p",";">> }

\* the well-formed ones, as xml.sax.parseString raises for any other
MarkupSegments ==
    { string \in UNION { {Concat(pieces) : pieces \in [1..n -> MarkupPieces]} :
                            n \in 1..MaxMarkupPieces } :
        WellFormed(string) }

\* The source segments with the tags of a second element, whose tokens the
\* scan for tag regions is to pair by nesting and not by name.
NestedWords == SourceWords \cup { <<"<","a",">">>, <<"<","/","a",">">> }

NestedSources ==
    { source \in UNION { {Join(tokens) : tokens \in [1..n -> NestedWords]} :
                            n \in 1..MaxSourceTokens } :
        WellFormed(source) }

\* a segment to tokenize: tokens joined by spaces, or markup as it comes
InitTokenizer ==
    /\ NoMasker
    /\ reinsertion_strategy = REINSERTION_FULL
    /\ force_all = FALSE
    /\ source_segment \in NestedSources \cup MarkupSegments
    /\ translated_segment = None
    /\ reinserted = None
    /\ again = None
    /\ working_tokens = <<>>
    /\ regions = <<>>
    /\ changes = <<>>
    /\ placed = <<>>
    /\ pc = "markup"

\* source_tokens = tokenize_keep_markup(source_segment)
TokenizeKeepMarkup ==
    /\ pc = "markup"
    /\ working_tokens' = tokenize_keep_markup(source_segment)
    /\ pc' = "tokenized"
    /\ UNCHANGED <<reinsertion_strategy, force_all, source_segment,
                   translated_segment, reinserted, again, regions>>
    /\ UNCHANGED placementVars
    /\ UNCHANGED maskerVars

\* The generator _next_source_tag_region(source_tokens) runs to its next
\* yield: it takes the tags of the triple out of the list it was handed.
\* Where a closing tag has no opening tag it ends the program, and where
\* only opening tags are left it does not come back.
NextSourceTagRegion ==
    /\ pc \in {"tokenized", "scanning"}
    /\ _tag_in_list(working_tokens)
    /\ LET step == _next_source_tag_region(working_tokens) IN
       IF step.kind = "yield"
       THEN /\ working_tokens' = step.source_tokens
            /\ regions' = Append(regions, <<step.opening, step.region, step.closing>>)
            /\ reinserted' = reinserted
            /\ pc' = "scanning"
       ELSE /\ UNCHANGED <<working_tokens, regions>>
            /\ reinserted' = [segment |-> <<>>,
                              raised |-> IF step.kind = "exit" THEN "SystemExit"
                                         ELSE "no return"]
            /\ pc' = "scan failed"
    /\ UNCHANGED <<reinsertion_strategy, force_all, source_segment,
                   translated_segment, again>>
    /\ UNCHANGED placementVars
    /\ UNCHANGED maskerVars

\* the generator is exhausted: no tag is in the list
StopIteration ==
    /\ pc \in {"tokenized", "scanning"}
    /\ ~ _tag_in_list(working_tokens)
    /\ pc' = "scanned"
    /\ UNCHANGED reinserterVars
    /\ UNCHANGED maskerVars

NextTokenizer ==
    \/ TokenizeKeepMarkup
    \/ NextSourceTagRegion
    \/ StopIteration

SpecTokenizer == InitTokenizer /\ [][NextTokenizer]_vars

(***************************************************************************)
(* The full strategy pass by pass: _reinsert_markup_full takes a triple    *)
(* from the generator, adds its changes to the list, and makes the changes *)
(* when the generator is exhausted.                                        *)
(***************************************************************************)
\* the most target tokens of a translation here: three phrases can be told
\* apart
MaxPhrases == 3

\* a Reinserter of the full strategy and a source with elements of two names
InitPlacement ==
    /\ NoMasker
    /\ reinsertion_strategy = REINSERTION_FULL
    /\ force_all = FALSE
    /\ source_segment \in { source \in NestedSources :
                              \E k \in 1..Len(source) : source[k] = "x" }
    /\ translated_segment = None
    /\ reinserted = None
    /\ again = None
    /\ working_tokens = <<>>
    /\ regions = <<>>
    /\ changes = <<>>
    /\ placed = <<>>
    /\ pc = "constructed"

\* translated_segment = self._engine.translate_segment(segment), for a
\* translation of up to MaxPhrases tokens
TranslateIntoPhrases ==
    /\ pc = "constructed"
    /\ LET n == Len(Content(Split(source_segment))) IN
       \E m \in 1..MaxPhrases :
       \E segmentation \in Segmentations(n, m) :
       \E items \in Alignments(n, m) :
       \E default \in BOOLEAN :
          translated_segment' =
                [translation  |-> Translation(m),
                 segmentation |-> segmentation,
                 alignment    |-> [default |-> default, items |-> items]]
    /\ pc' = "segment translated"
    /\ UNCHANGED <<reinsertion_strategy, force_all, source_segment, reinserted,
                   again, working_tokens, regions>>
    /\ UNCHANGED placementVars
    /\ UNCHANGED maskerVars

\* reinsert_markup is called and _reinsert_markup_full begins:
\* source_tokens = tokenize_keep_markup(source_segment), changes = []
BeginFull ==
    /\ pc = "segment translated"
    /\ working_tokens' = tokenize_keep_markup(source_segment)
    /\ changes' = <<>>
    /\ pc' = "placing"
    /\ UNCHANGED <<reinsertion_strategy, force_all, source_segment,
                   translated_segment, reinserted, again, regions, placed>>
    /\ UNCHANGED maskerVars

\* One pass of the loop over the generator: the generator yields the next
\* triple and the body adds its changes.  placed keeps the values the pass
\* worked with.  An exception ends the call.
PlaceTags ==
    /\ pc = "placing"
    /\ _tag_in_list(working_tokens)
    /\ \E step \in { _next_source_tag_region(working_tokens) } :
       IF step.kind # "yield"
       THEN /\ reinserted' = [segment |-> <<>>,
                              raised |-> IF step.kind = "exit" THEN "SystemExit"
                                         ELSE "no return"]
            /\ pc' = "reinserted"
            /\ UNCHANGED <<working_tokens, regions, changes, placed, translated_segment>>
       ELSE \E st \in { Place(step.opening, step.region, step.closing,
                              Split(translated_segment.translation),
                              translated_segment.segmentation,
                              [changes |-> changes,
                               alignment |-> translated_segment.alignment,
                               raised |-> ""]) } :
            \E source_phrase_regions \in
                 { IF step.closing = NoTag \/ step.region = <<>> THEN <<>>
                   ELSE _find_source_phrase_regions(step.region,
                            translated_segment.segmentation) } :
               /\ working_tokens' = step.source_tokens
               /\ regions' = Append(regions, <<step.opening, step.region, step.closing>>)
               /\ translated_segment' =
                     [translated_segment EXCEPT !.alignment = st.alignment]
               /\ placed' = Append(placed,
                     [opening |-> step.opening,
                      source_tag_region |-> step.region,
                      closing |-> step.closing,
                      source_phrase_regions |-> source_phrase_regions,
                      target_covering_phrases |->
                          _find_target_covering_phrases(source_phrase_regions,
                              translated_segment.segmentation),
                      added |-> IF st.raised # "" THEN <<>>
                                ELSE SubSeq(st.changes, Len(changes) + 1,
                                            Len(st.changes))])
               /\ IF st.raised # ""
                  THEN /\ reinserted' = [segment |-> <<>>, raised |-> st.raised]
                       /\ pc' = "reinserted"
                       /\ UNCHANGED changes
                  ELSE /\ changes' = st.changes
                       /\ UNCHANGED <<reinserted, pc>>
    /\ UNCHANGED <<reinsertion_strategy, force_all, source_segment, again>>
    /\ UNCHANGED maskerVars

\* the generator is exhausted: the changes are made from the last position
\* on and the tokens are joined
MakeChanges ==
    /\ pc = "placing"
    /\ ~ _tag_in_list(working_tokens)
    /\ reinserted' =
          [segment |-> Join(InsertAll(Split(translated_segment.translation),
                                      Sorted(changes, "change"), 1)),
           raised |-> ""]
    /\ pc' = "reinserted"
    /\ UNCHANGED <<reinsertion_strategy, force_all, source_segment,
                   translated_segment, again, working_tokens, regions>>
    /\ UNCHANGED placementVars
    /\ UNCHANGED maskerVars

NextPlacement ==
    \/ TranslateIntoPhrases
    \/ BeginFull
    \/ PlaceTags
    \/ MakeChanges

SpecPlacement == InitPlacement /\ [][NextPlacement]_vars

(***************************************************************************)
(* Vocabulary of the properties                                            *)
(***************************************************************************)
Categories == 1..Len(PROTECTED_PATTERNS)

\* the placeholder all spans of category c share, and the one of its k-th
\* span (counted from 0) under the identity strategy
SharedPlaceholder(c) == <<"_","_">> \o PROTECTED_PATTERNS[c].mask \o <<"_","_">>
NumberedPlaceholder(c, k) ==
    <<"_","_">> \o PROTECTED_PATTERNS[c].mask \o <<"_">> \o Decimal(k) \o <<"_","_">>

\* token is a placeholder of category c, of either form
IsPlaceholderOf(c, token) ==
    \/ token = SharedPlaceholder(c)
    \/ \E k \in 0..Len(token) : token = NumberedPlaceholder(c, k)

IsPlaceholder(token) == \E c \in Categories : IsPlaceholderOf(c, token)

\* the entries of a mapping whose placeholder is of category c, in order
EntriesOf(c, m) == SelectSeq(m, LAMBDA entry : IsPlaceholderOf(c, entry[1]))

\* the mapping holds the same placeholder string twice
HasDuplicates(m) == \E i, j \in 1..Len(m) : i < j /\ m[i][1] = m[j][1]

SourceTokens == Split(masked)
TargetTokens == Split(target)

\* the alignment links every source token to exactly one target token,
\* which holds the same text
LinksCounterparts ==
    /\ ~ alignment.none
    /\ DOMAIN alignment.dict = 0..(Len(SourceTokens) - 1)
    /\ \A i \in DOMAIN alignment.dict :
          /\ Len(alignment.dict[i]) = 1
          /\ alignment.dict[i][1] < Len(TargetTokens)
          /\ TargetTokens[alignment.dict[i][1] + 1] = SourceTokens[i + 1]

\* unmask_segment is about to take the path of the duplicate placeholders
OnDuplicatesPath ==
    /\ pc = "translated"
    /\ strategy = MASKING_ALIGNMENT
    /\ HasDuplicates(mapping)

\* the non-overlapping matches of regex in text from position i on, leftmost
\* first, as the spans they cover
RECURSIVE Spans(_, _, _)
Spans(regex, text, i) ==
    IF i > Len(text) THEN <<>>
    ELSE LET e == MatchEnd(regex, text, i) IN
         IF e > i THEN <<[from |-> i, to |-> e - 1]>> \o Spans(regex, text, e)
         ELSE Spans(regex, text, i + 1)

\* the texts occur in text from position i on, one after the other without
\* overlap, in the order given
RECURSIVE Embeds(_, _, _)
Embeds(texts, text, i) ==
    \/ texts = <<>>
    \/ LET p == Find(text, Head(texts), i) IN
          p # 0 /\ Embeds(Tail(texts), text, p + Len(Head(texts)))

Originals(m) == [i \in 1..Len(m) |-> m[i][2]]

\* the category of a mapping entry
CategoryOf(entry) == CHOOSE c \in Categories : IsPlaceholderOf(c, entry[1])

\* the text the pattern of category c scans, and the text it leaves
Scanned(c) == MaskLoop(strategy, segment, c - 1).segment
Left(c)    == MaskLoop(strategy, segment, c).segment

\* Putting the originals back, the categories last to first and the
\* entries of one category first to last
RECURSIVE Restore(_, _, _)
Restore(text, m, c) ==
    IF c = 0 THEN text
    ELSE Restore(ReplaceInOrder(text, EntriesOf(c, m)), m, c - 1)

\* the entity of a reserved character; any other character is itself
Entity(char) ==
    IF \E k \in 1..Len(MOSES_SPECIAL_CHARS) : MOSES_SPECIAL_CHARS[k][1] = <<char>>
    THEN MOSES_SPECIAL_CHARS[CHOOSE k \in 1..Len(MOSES_SPECIAL_CHARS) :
                                 MOSES_SPECIAL_CHARS[k][1] = <<char>>][2]
    ELSE <<char>>

\* every character replaced by its entity
EntityEncode(text) == Concat([i \in 1..Len(text) |-> Entity(text[i])])

\* every entity replaced by its character, reading from the left
RECURSIVE EntityDecode(_, _)
EntityDecode(text, i) ==
    IF i > Len(text) THEN <<>>
    ELSE IF \E k \in 1..Len(MOSES_SPECIAL_CHARS) :
                StartsAt(text, MOSES_SPECIAL_CHARS[k][2], i)
    THEN LET k == CHOOSE k \in 1..Len(MOSES_SPECIAL_CHARS) :
                      StartsAt(text, MOSES_SPECIAL_CHARS[k][2], i)
         IN MOSES_SPECIAL_CHARS[k][1]
            \o EntityDecode(text, i + Len(MOSES_SPECIAL_CHARS[k][2]))
    ELSE <<text[i]>> \o EntityDecode(text, i + 1)

(***************************************************************************)
(* C1.  Round trip: masking a segment under the identity strategy with     *)
(* escaping disabled and unmasking the masked segment itself with the      *)
(* returned mapping gives back the original segment.                       *)
(* The code does not: a later category's pattern can match text that holds *)
(* an earlier category's placeholder, and unmasking then looks for the     *)
(* earlier placeholder before the later one has been put back.             *)
(***************************************************************************)
RoundTripIdentity ==
    (pc = "done" /\ strategy = MASKING_IDENTITY /\ ~ escape /\ target = masked)
        => (raised = "" /\ result = segment)

(***************************************************************************)
(* C2.  Shared-symbol strategy, duplicate placeholders in the mapping, an  *)
(* alignment that links every source placeholder to the target token       *)
(* holding the same placeholder: unmask_segment returns a segment in which *)
(* no placeholder of any category (xml, email, url) is left.               *)
(* The code leaves the e-mail and URL placeholders in place, because       *)
(* _is_mask_token compares a token with the first mask only.               *)
(***************************************************************************)
AlignmentUnmasksEveryCategory ==
    [][ (OnDuplicatesPath /\ LinksCounterparts)
           => /\ raised' = ""
              /\ \A j \in 1..Len(Split(result')) : ~ IsPlaceholder(Split(result')[j]) ]_vars

(***************************************************************************)
(* C3.  Shared-symbol strategy, duplicate placeholders, an alignment that  *)
(* links each source placeholder to its counterpart, also across a         *)
(* reordering: the target token aligned to the k-th source occurrence of a *)
(* placeholder spelling becomes the original text of the k-th mapping      *)
(* entry of that spelling.                                                 *)
(* This fails for the spellings of e-mail and URL placeholders, which the  *)
(* code never replaces on this path (see C2).                              *)
(***************************************************************************)
\* how many of the first i source tokens are the i-th one
OccurrenceNumber(i) ==
    Cardinality({h \in 1..i : SourceTokens[h] = SourceTokens[i]})

AlignedTokenGetsItsEntry ==
    [][ (OnDuplicatesPath /\ LinksCounterparts)
           => \A i \in 1..Len(SourceTokens) :
                 LET entries ==
                         SelectSeq(mapping, LAMBDA entry : entry[1] = SourceTokens[i])
                     k == OccurrenceNumber(i)
                 IN (IsPlaceholder(SourceTokens[i]) /\ k <= Len(entries))
                       => /\ raised' = ""
                          /\ Split(result')[alignment.dict[i - 1][1] + 1] = entries[k][2]
      ]_vars

\* the same, for the spelling of the first mask only
AlignedXmlTokenGetsItsEntry ==
    [][ (OnDuplicatesPath /\ LinksCounterparts)
           => \A i \in 1..Len(SourceTokens) :
                 LET entries ==
                         SelectSeq(mapping, LAMBDA entry : entry[1] = SourceTokens[i])
                     k == OccurrenceNumber(i)
                 IN (SourceTokens[i] = SharedPlaceholder(1) /\ k <= Len(entries))
                       => /\ raised' = ""
                          /\ Split(result')[alignment.dict[i - 1][1] + 1] = entries[k][2]
      ]_vars

(***************************************************************************)
(* C4.  On the path of the duplicate placeholders unmask_segment does not  *)
(* raise when the alignment is None, lacks the key of a source placeholder *)
(* position, or names a target index outside the target: it returns, and   *)
(* the placeholder it could not resolve is still in the segment.           *)
(* The code raises TypeError, KeyError and IndexError in these cases.      *)
(***************************************************************************)
\* the alignment is unusable at the source position i (zero-based)
Unusable(i) ==
    \/ alignment.none
    \/ i \notin DOMAIN alignment.dict
    \/ \E c \in 1..Len(alignment.dict[i]) : alignment.dict[i][c] >= Len(TargetTokens)

MalformedAlignmentDegrades ==
    [][ (/\ OnDuplicatesPath
         /\ \E i \in 0..(Len(SourceTokens) - 1) :
               IsPlaceholder(SourceTokens[i + 1]) /\ Unusable(i))
           => /\ raised' = ""
              /\ \E j \in 1..Len(Split(result')) : IsPlaceholder(Split(result')[j]) ]_vars

(***************************************************************************)
(* C7.  An unknown strategy name is a hard failure: a Masker built with a  *)
(* name that is no masking strategy raises instead of masking or           *)
(* unmasking.                                                              *)
(* The code stores any name; mask_segment then masks with shared symbols   *)
(* and unmask_segment returns the target as it is, neither raising.        *)
(***************************************************************************)
UnknownStrategyRaises ==
    (strategy \notin MASKING_STRATEGIES /\ pc \in {"masked", "translated", "done"})
        => raised # ""

(***************************************************************************)
(* C8.  unmask_segment is purely functional over its inputs: when it       *)
(* returns, the caller's mapping list and alignment hold what they held    *)
(* before the call, on every unmasking path.                               *)
(* On the path of the duplicate placeholders the code deletes from the     *)
(* caller's list every entry it uses.                                      *)
(***************************************************************************)
UnmaskLeavesInputs ==
    [][ (pc = "translated" /\ raised' = "")
           => (mapping' = mapping /\ alignment' = alignment) ]_vars

MappingInSourceOrder ==
    (pc = "masked" /\ \A i \in 1..Len(mapping) : Find(segment, mapping[i][2], 1) # 0)
        => Embeds(Originals(mapping), segment, 1)

(***************************************************************************)
(* C6, amended.  The mapping lists its pairs category by category, in the  *)
(* order PROTECTED_PATTERNS enumerates the categories; the pairs of one    *)
(* category are in left-to-right order of the matches in the text the      *)
(* category's pattern scanned.  When all pairs are of one category, that   *)
(* is the left-to-right order of the spans in the source segment.          *)
(***************************************************************************)
MappingByCategoryThenPosition ==
    pc = "masked"
        => /\ \A i, j \in 1..Len(mapping) :
                 i < j => CategoryOf(mapping[i]) <= CategoryOf(mapping[j])
           /\ \A c \in Categories :
                 Embeds(Originals(EntriesOf(c, mapping)), Scanned(c), 1)
           /\ (\E c \in Categories : EntriesOf(c, mapping) = mapping)
                 => Embeds(Originals(mapping), segment, 1)

\* spans of two categories, all of them spans of the source, listed in
\* another order than the source has them
MappingByCategoryWitness ==
    /\ pc = "masked"
    /\ \E i, j \in 1..Len(mapping) : CategoryOf(mapping[i]) # CategoryOf(mapping[j])
    /\ \A i \in 1..Len(mapping) : Find(segment, mapping[i][2], 1) # 0
    /\ ~ Embeds(Originals(mapping), segment, 1)

(***************************************************************************)
(* C9.  mask_segment escapes exactly when escape is set.  With escape set, *)
(* the returned segment is entity-encoded (no reserved character is left   *)
(* bare) and decodes to a text in which putting the mapping's originals    *)
(* back for the placeholders gives the input: placeholders are intact and  *)
(* the originals are stored unescaped.  With escape unset, putting the     *)
(* originals back in the returned segment itself gives the input: the text *)
(* outside the masked spans is unchanged.                                  *)
(***************************************************************************)
EscapesExactlyWhenSet ==
    pc = "masked"
        => LET plain == IF escape THEN EntityDecode(masked, 1) ELSE masked IN
           /\ escape => masked = EntityEncode(plain)
           /\ Restore(plain, mapping, Len(PROTECTED_PATTERNS)) = segment

\* escaping is on, a tag has been masked and stored with its angle brackets,
\* and an ampersand outside the masked spans has been escaped
EscapesExactlyWhenSetWitness ==
    /\ pc = "masked"
    /\ escape
    /\ \E i \in 1..Len(mapping) : Find(mapping[i][2], <<"<">>, 1) # 0
    /\ Find(masked, <<"&","a","m","p",";">>, 1) # 0
    /\ Find(segment, <<"&","a","m","p",";">>, 1) = 0

(***************************************************************************)
(* C10.  Escape round trip: de-escaping an escaped text gives back the     *)
(* text, also when the text already holds entity texts.                    *)
(***************************************************************************)
EscapeRoundTrip ==
    pc = "deescaped" => deescaped = segment

\* a text that holds an entity has been escaped and de-escaped
EscapeRoundTripWitness ==
    /\ pc = "deescaped"
    /\ Find(segment, <<"&","l","t",";">>, 1) # 0
    /\ escaped # segment


(***************************************************************************)
(* Properties of the Reinserter                                            *)
(***************************************************************************)
\* C11.  Reinsertion determinism: a second reinsert_markup call with the
\* same source, the same target, and a segmentation and an alignment that
\* hold the same entries, in whatever order the dictionaries enumerate
\* them, returns what the first call returned.
\* The alignment-only strategy does not: where two source tokens are aligned
\* to one target token, the source token enumerated last is the one whose
\* tags are put before the target token.
ReinsertionDeterministic ==
    pc = "reinserted again" => again = reinserted

\* the tags in a segment, in order
TagsOf(segment_) == SelectSeq(Split(segment_), is_xml_tag)

\* how often a token is in a list, and two lists holding the same tokens
\* equally often
Count(tokens, token) == Cardinality({k \in 1..Len(tokens) : tokens[k] = token})
SameTokens(a, b) ==
    \A token \in {a[k] : k \in 1..Len(a)} \cup {b[k] : k \in 1..Len(b)} :
        Count(a, token) = Count(b, token)

\* C12.  With force_all set, the full strategy inserts every tag of the
\* source into the target: when reinsert_markup returns, each opening,
\* closing and self-closing tag of the source is in the output exactly as
\* often as in the source, also where no rule places it with confidence.
\* The full strategy never reads force_all, and where the tag region does
\* not end at phrase boundaries and the target phrases are apart it inserts
\* a tag only if a token of the region is aligned into the outermost phrase.
FullInsertsEveryTag ==
    (pc = "reinserted" /\ reinsertion_strategy = REINSERTION_FULL /\ force_all
        /\ reinserted.raised = "")
    => SameTokens(TagsOf(reinserted.segment), TagsOf(source_segment))

\* the tags of the tokenized source, in order
SourceTags == SelectSeq(tokenize_keep_markup(source_segment), is_xml_tag)

\* C13.  In the segmentation-only and the alignment-only strategy no tag of
\* the source is emitted more than once: no tag token is in the output more
\* often than in the tokenized source.  With force_all set every tag is
\* emitted exactly once: the output holds the same tag tokens as the
\* tokenized source, each as often.
TagsEmittedOnce ==
    (pc = "reinserted"
        /\ reinsertion_strategy \in {REINSERTION_SEGMENTATION, REINSERTION_ALIGNMENT})
    => LET emitted == TagsOf(reinserted.segment) IN
       /\ reinserted.raised = ""
       /\ \A k \in 1..Len(emitted) :
              Count(emitted, emitted[k]) <= Count(SourceTags, emitted[k])
       /\ force_all => SameTokens(emitted, SourceTags)

\* force_all is set and the output holds a tag only because it is: a tag
\* that was left pending is appended, beside the tags emitted at their place
TagsEmittedOnceWitness ==
    /\ pc = "reinserted"
    /\ reinsertion_strategy = REINSERTION_ALIGNMENT
    /\ force_all
    /\ Len(SourceTags) >= 2
    /\ LET unforced == TagsOf(_reinsert_markup_alignment(FALSE, source_segment,
                           translated_segment.translation,
                           translated_segment.alignment))
       IN unforced # <<>> /\ Len(unforced) < Len(TagsOf(reinserted.segment))

\* The source index a tag is pending at, for the tag at the p-th place
\* (one-based) of the tokenized source: an opening or self-closing tag at
\* the index of the word that follows it, a closing tag at the index of the
\* word before it, indexes counting the words only.
WordsBefore(tokens, p) == Len(Content(SubSeq(tokens, 1, p - 1)))
PendingAt(tokens, p) ==
    IF _is_closing_tag(tokens[p]) THEN WordsBefore(tokens, p) - 1
    ELSE WordsBefore(tokens, p)

\* index is in a source span of the segmentation
InPhrase(segmentation, index) ==
    \E k \in 1..Len(segmentation) :
        segmentation[k][1][1] <= index /\ index <= segmentation[k][1][2]

\* the places of the tokenized source that hold a tag, in order
TagPlaces(tokens) ==
    SelectSeq([p \in 1..Len(tokens) |-> p], LAMBDA p : is_xml_tag(tokens[p]))

\* the tags pending inside the phrases, and the closing (or the other) tags
\* pending outside of every phrase, in the order of the source
ReachedTags(tokens, segmentation) ==
    LET places == SelectSeq(TagPlaces(tokens),
                     LAMBDA p : InPhrase(segmentation, PendingAt(tokens, p)))
    IN [k \in 1..Len(places) |-> tokens[places[k]]]
UnreachedTags(tokens, segmentation, closing) ==
    LET places == SelectSeq(TagPlaces(tokens),
                     LAMBDA p : /\ ~ InPhrase(segmentation, PendingAt(tokens, p))
                                /\ _is_closing_tag(tokens[p]) = closing)
    IN [k \in 1..Len(places) |-> tokens[places[k]]]

\* C14.  Segmentation-only strategy.  With force_all set, the tags whose
\* source index is outside every phrase span are appended after all phrase
\* output: the output ends with them, in the order of their source
\* positions, the opening ones before the closing ones, and what stands
\* before them holds every target token and the tags pending inside the
\* phrases.  With force_all unset the output holds only the tags pending
\* inside the phrases.
UnreachedTagsAppended ==
    (pc = "reinserted" /\ reinsertion_strategy = REINSERTION_SEGMENTATION)
    => LET tokens  == tokenize_keep_markup(source_segment)
           phrases == translated_segment.segmentation
           output  == Split(reinserted.segment)
           reached == ReachedTags(tokens, phrases)
           left    == UnreachedTags(tokens, phrases, FALSE)
                        \o UnreachedTags(tokens, phrases, TRUE)
           before  == SubSeq(output, 1, Len(output) - Len(left))
       IN IF force_all
          THEN /\ Len(output) >= Len(left)
               /\ SubSeq(output, Len(output) - Len(left) + 1, Len(output)) = left
               /\ Content(before) = Split(translated_segment.translation)
               /\ SameTokens(SelectSeq(before, is_xml_tag), reached)
          ELSE SameTokens(SelectSeq(output, is_xml_tag), reached)

\* force_all is set, and an opening and a closing tag are pending outside
\* of every phrase
UnreachedTagsAppendedWitness ==
    /\ pc = "reinserted"
    /\ reinsertion_strategy = REINSERTION_SEGMENTATION
    /\ force_all
    /\ LET tokens == tokenize_keep_markup(source_segment) IN
       /\ UnreachedTags(tokens, translated_segment.segmentation, FALSE) # <<>>
       /\ UnreachedTags(tokens, translated_segment.segmentation, TRUE) # <<>>
       /\ ReachedTags(tokens, translated_segment.segmentation) # <<>>

\* the spans cut a sentence of n tokens: taken in order they are contiguous,
\* start at the first token and end at the last
CutSentence(spans, n) ==
    LET ordered == Sorted(spans, "tuple") IN
    /\ spans # <<>>
    /\ ordered[1][1] = 0
    /\ ordered[Len(ordered)][2] = n - 1
    /\ \A k \in 1..Len(ordered) : ordered[k][1] <= ordered[k][2]
    /\ \A k \in 2..Len(ordered) : ordered[k][1] = ordered[k - 1][2] + 1

\* C15.  The segmentation-only strategy drops no content: for a
\* segmentation that satisfies the data model (a partition of the sentence
\* into phrase pairs: the source spans are pairwise disjoint and cover all
\* source indexes, and so the target spans for the translation, as the
\* engine reports them), the output without its tags is the sequence of the
\* target tokens, every target token once and in its place.
SegmentationKeepsContent ==
    (pc = "reinserted" /\ reinsertion_strategy = REINSERTION_SEGMENTATION)
    => LET phrases == translated_segment.segmentation
           words   == Content(tokenize_keep_markup(source_segment))
           tokens  == Split(translated_segment.translation)
       IN (/\ CutSentence([k \in 1..Len(phrases) |-> phrases[k][1]], Len(words))
           /\ CutSentence([k \in 1..Len(phrases) |-> phrases[k][2]], Len(tokens)))
          => /\ reinserted.raised = ""
             /\ Content(Split(reinserted.segment)) = tokens

\* two phrases that the translation has in the other order, and tags put
\* between the target tokens
SegmentationKeepsContentWitness ==
    /\ pc = "reinserted"
    /\ reinsertion_strategy = REINSERTION_SEGMENTATION
    /\ LET phrases == translated_segment.segmentation
           output  == Split(reinserted.segment)
       IN /\ \E j, k \in 1..Len(phrases) :
                 /\ TupleLess(phrases[j][1], phrases[k][1])
                 /\ TupleLess(phrases[k][2], phrases[j][2])
          /\ CutSentence([k \in 1..Len(phrases) |-> phrases[k][1]],
                         Len(Content(tokenize_keep_markup(source_segment))))
          /\ \E p \in 2..(Len(output) - 1) :
                 /\ is_xml_tag(output[p])
                 /\ ~ is_xml_tag(output[p - 1])
                 /\ ~ is_xml_tag(output[p + 1])

\* The source index a target index (zero-based) is aligned to: the source of
\* the last item that lists it, -1 where no item does
AlignedSource(items, target_index) ==
    LET listing == { k \in 1..Len(items) :
                        \E j \in 1..Len(items[k][2]) : items[k][2][j] = target_index }
    IN IF listing = {} THEN -1
       ELSE items[CHOOSE k \in listing : \A j \in listing : j <= k][1]

\* the tags of the tokenized source that stand before the word of an index,
\* with no other word between, in order
TagsBeforeWord(tokens, index) ==
    LET places == SelectSeq(TagPlaces(tokens),
                     LAMBDA p : WordsBefore(tokens, p) = index)
    IN [k \in 1..Len(places) |-> tokens[places[k]]]

\* the example of the specification
SkySource == <<"i","n"," ","t","h","e"," ","<","b",">"," ","s","k","y"," ","<","/","b",">"," ","m","u","c","h">>
SkyTarget == <<"d","a","n","s"," ","l","e"," ","c","i","e","l"," ","b","e","a","u","c","o","u","p">>
SkyOutput == <<"d","a","n","s"," ","l","e"," ","<","b",">"," ","c","i","e","l"," ","<","/","b",">"," ","b","e","a","u","c","o","u","p">>
SkyAlignment ==
    [default |-> FALSE,
     items |-> << <<0, <<0>> >>, <<1, <<1>> >>, <<2, <<2>> >>, <<3, <<3>> >>, <<4, <<4>> >> >>]

\* C16.  Alignment-only placement.  A tag of the source is keyed by the
\* index, counting words only, of the source token that follows it.  The
\* output holds every target token once and in order, and what stands
\* immediately before a target token, back to the target token before it,
\* is: the tags keyed by the source index the target token is aligned to,
\* if it is the first target token from the left aligned to that index, and
\* nothing otherwise.  The source 'in the <b> sky </b> much' with the
\* identity alignment gives 'dans le <b> ciel </b> beaucoup'.
AlignmentPlacesTags ==
    (pc = "reinserted" /\ reinsertion_strategy = REINSERTION_ALIGNMENT)
    => LET tokens == tokenize_keep_markup(source_segment)
           items  == translated_segment.alignment.items
           words  == Split(translated_segment.translation)
           output == Split(reinserted.segment)
           places == SelectSeq([p \in 1..Len(output) |-> p],
                               LAMBDA p : ~ is_xml_tag(output[p]))
       IN /\ reinserted.raised = ""
          /\ [j \in 1..Len(places) |-> output[places[j]]] = words
          /\ \A j \in 1..Len(words) :
                 LET key   == AlignedSource(items, j - 1)
                     first == \A i \in 1..(j - 1) : AlignedSource(items, i - 1) # key
                     from  == IF j = 1 THEN 1 ELSE places[j - 1] + 1
                 IN SubSeq(output, from, places[j] - 1)
                      = IF key # -1 /\ first THEN TagsBeforeWord(tokens, key) ELSE <<>>
          /\ _reinsert_markup_alignment(FALSE, SkySource, SkyTarget, SkyAlignment)
                = SkyOutput

\* an opening tag is put between two target tokens, before the one aligned
\* to the word that follows the tag, in a translation of the other order
AlignmentPlacesTagsWitness ==
    /\ pc = "reinserted"
    /\ reinsertion_strategy = REINSERTION_ALIGNMENT
    /\ LET output == Split(reinserted.segment)
           items  == translated_segment.alignment.items
       IN /\ Len(output) >= 3
          /\ ~ is_xml_tag(output[1])
          /\ _is_opening_tag(output[2])
          /\ ~ is_xml_tag(output[3])
          /\ AlignedSource(items, 1) = 0
          /\ AlignedSource(items, 0) = 1

(***************************************************************************)
(* Properties of the tokenizer and of the scan for tag regions             *)
(***************************************************************************)
\* the tokens with token added, if it is not empty
Flushed(tokens, token) == IF token = <<>> THEN tokens ELSE Append(tokens, token)

\* What the tokens of a well-formed segment are to be, read from the i-th
\* character on: a tag, from its < to its >, is one token as it is written,
\* and the text between tags is split at the spaces, no token being empty.
RECURSIVE TokensFrom(_, _, _, _)
TokensFrom(text, i, token, tokens) ==
    IF i > Len(text) THEN Flushed(tokens, token)
    ELSE IF text[i] = "<"
    THEN LET end == CHOOSE e \in i..Len(text) :
                        /\ text[e] = ">"
                        /\ \A d \in i..(e - 1) : text[d] # ">"
         IN TokensFrom(text, end + 1, <<>>,
                       Append(Flushed(tokens, token), SubSeq(text, i, end)))
    ELSE IF text[i] = " "
    THEN TokensFrom(text, i + 1, <<>>, Flushed(tokens, token))
    ELSE TokensFrom(text, i + 1, Append(token, text[i]), tokens)

\* C17.  tokenize_keep_markup never splits a tag: for a well-formed segment
\* every opening, closing and self-closing tag of the input, with its
\* attributes and the spaces in it, is one token of the output, the text
\* between the tags is split at single spaces with the empty tokens left
\* out, and the root element wrapped around the segment gives no token.
\* The code writes an element without content as one self-closing tag,
\* whether the input has it as an opening and a closing tag or not, and
\* splits the text at every entity.
TokenizerKeepsTags ==
    pc = "tokenized" => working_tokens = TokensFrom(source_segment, 1, <<>>, <<>>)

\* The pairs (place of the opening tag, place of the closing tag) of a list
\* of tokens, read from the p-th token on: a closing tag goes with the
\* opening tag that was opened last and has no closing tag yet.  open holds
\* the places of the opening tags without a closing tag so far.
RECURSIVE PairsFrom(_, _, _, _)
PairsFrom(tokens, p, open, pairs) ==
    IF p > Len(tokens) THEN pairs
    ELSE IF _is_selfclosing_tag(tokens[p]) THEN PairsFrom(tokens, p + 1, open, pairs)
    ELSE IF _is_closing_tag(tokens[p])
    THEN IF open = <<>> THEN PairsFrom(tokens, p + 1, open, pairs)
         ELSE PairsFrom(tokens, p + 1, SubSeq(open, 1, Len(open) - 1),
                        pairs \cup {<<open[Len(open)], p>>})
    ELSE IF _is_opening_tag(tokens[p])
    THEN PairsFrom(tokens, p + 1, Append(open, p), pairs)
    ELSE PairsFrom(tokens, p + 1, open, pairs)

\* The triple of a pair: the opening tag with the index of the word before
\* it, the indexes of the words between the two tags, and the closing tag
\* with the index of the word after it, indexes counting the words only.
TripleOfPair(tokens, pair) ==
    LET first == WordsBefore(tokens, pair[1])
        after == WordsBefore(tokens, pair[2])
    IN << <<first - 1, tokens[pair[1]]>>,
          [k \in 1..(after - first) |-> first + k - 1],
          <<after, tokens[pair[2]]>> >>

\* the triple of the self-closing tag at the p-th place: no words, no
\* closing tag
TripleOfTag(tokens, p) == << <<WordsBefore(tokens, p), tokens[p]>>, <<>>, NoTag >>

\* C18.  Tag-region scan: for a well-nested tokenized source the generator
\* _next_source_tag_region ends, and when it has ended no tag is left in
\* the working list and it has yielded one triple for every self-closing
\* tag and one for every pair of an opening tag and its closing tag, a
\* closing tag being paired with the opening tag opened last that has none
\* yet; the list of a pair's triple holds the positions, in the source
\* without its tags, of the words between the two tags, and of no other.
ScanYieldsEveryRegion ==
    /\ pc # "scan failed"
    /\ pc = "scanned" =>
          LET tokens == tokenize_keep_markup(source_segment)
              pairs  == PairsFrom(tokens, 1, <<>>, {})
              alone  == { p \in 1..Len(tokens) : _is_selfclosing_tag(tokens[p]) }
              due    == { TripleOfPair(tokens, pair) : pair \in pairs }
                          \cup { TripleOfTag(tokens, p) : p \in alone }
          IN /\ working_tokens = Content(tokens)
             /\ Len(regions) = Cardinality(pairs) + Cardinality(alone)
             /\ \A k \in 1..Len(regions) : regions[k] \in due
             /\ \A triple \in due :
                    Count(regions, triple)
                      = Cardinality({ pair \in pairs : TripleOfPair(tokens, pair) = triple })
                        + Cardinality({ p \in alone : TripleOfTag(tokens, p) = triple })

\* the scan has ended for an element with a word and another element in it,
\* the two of different names
ScanYieldsEveryRegionWitness ==
    /\ pc = "scanned"
    /\ \E j, k \in 1..Len(regions) :
          /\ regions[j][3] # NoTag
          /\ regions[k][3] # NoTag
          /\ regions[j][1][2] # regions[k][1][2]
          /\ regions[j][2] # <<>>
          /\ regions[j][1][1] < regions[k][1][1]
          /\ regions[k][3][1] <= regions[j][3][1]

(***************************************************************************)
(* Properties of the full strategy                                         *)
(***************************************************************************)
\* the targets the alignment holds for a source index: none when the index
\* is no key of it
TargetsOf(items, key) == IF HasKey(items, key) THEN ValueOf(items, key) ELSE <<>>

\* the tokens with the tags put before the token of the zero-based index
PutAt(tokens, index, tags) ==
    SubSeq(tokens, 1, index) \o tags \o SubSeq(tokens, index + 1, Len(tokens))

\* the places of the opening tags that are followed at once by a closing tag
EmptyPairs(tokens) ==
    { p \in 1..(Len(tokens) - 1) :
        _is_opening_tag(tokens[p]) /\ _is_closing_tag(tokens[p + 1]) }

\* C19.  Full strategy, empty content region: for a source whose only
\* markup is one pair of an opening and a closing tag with no token between
\* them, reinsert_markup raises no error and returns the translation with
\* the pair, opening tag then closing tag, right after the first target
\* aligned to the word before the opening tag, and at the end of the
\* translation when there is no such target: the word is no key of the
\* alignment, its list of targets is empty, or the pair begins the source.
FullPlacesEmptyPair ==
    (/\ pc = "reinserted"
     /\ reinsertion_strategy = REINSERTION_FULL
     /\ LET tokens == Split(source_segment) IN
        /\ Cardinality(EmptyPairs(tokens)) = 1
        /\ Len(SelectSeq(tokens, is_xml_tag)) = 2)
    => LET tokens  == Split(source_segment)
           p       == CHOOSE q \in EmptyPairs(tokens) : TRUE
           word    == WordsBefore(tokens, p) - 1
           targets == TargetsOf(translated_segment.alignment.items, word)
           target_tokens == Split(translated_segment.translation)
           pair    == <<tokens[p], tokens[p + 1]>>
       IN /\ reinserted.raised = ""
          /\ Split(reinserted.segment) =
                IF word < 0 \/ targets = <<>>
                THEN target_tokens \o pair
                ELSE PutAt(target_tokens, targets[1] + 1, pair)

\* the places of the self-closing tags
SelfClosingTags(tokens) == { p \in 1..Len(tokens) : _is_selfclosing_tag(tokens[p]) }

\* C20.  Full strategy, self-closing tag: for a source whose only markup is
\* one self-closing tag, reinsert_markup raises no error and returns the
\* translation with the tag before the first target aligned to the source
\* position of the tag, which is the position of the word after it, and at
\* the end of the translation when that position has no target: its list of
\* targets is empty or it is no key of the alignment, as for a tag after
\* the last word of the source.
FullPlacesSelfClosingTag ==
    (/\ pc = "reinserted"
     /\ reinsertion_strategy = REINSERTION_FULL
     /\ LET tokens == Split(source_segment) IN
        /\ Cardinality(SelfClosingTags(tokens)) = 1
        /\ Len(SelectSeq(tokens, is_xml_tag)) = 1)
    => LET tokens  == Split(source_segment)
           p       == CHOOSE q \in SelfClosingTags(tokens) : TRUE
           targets == TargetsOf(translated_segment.alignment.items,
                                WordsBefore(tokens, p))
           target_tokens == Split(translated_segment.translation)
       IN /\ reinserted.raised = ""
          /\ Split(reinserted.segment) =
                IF targets = <<>> THEN Append(target_tokens, tokens[p])
                ELSE PutAt(target_tokens, targets[1], <<tokens[p]>>)

(***************************************************************************)
(* Properties of the passes of the full strategy                           *)
(***************************************************************************)
\* the passes for a pair of tags with tokens between them
PairPasses ==
    { k \in 1..Len(placed) :
        placed[k].closing # NoTag /\ placed[k].source_tag_region # <<>> }

\* the source spans of the segmentation that hold an index of the region
OverlappingSpans(source_tag_region, segmentation) ==
    { segmentation[k][1] : k \in { j \in 1..Len(segmentation) :
        \E i \in 1..Len(source_tag_region) :
            /\ segmentation[j][1][1] <= source_tag_region[i]
            /\ source_tag_region[i] <= segmentation[j][1][2] } }

\* C21.  _find_source_phrase_regions returns, in ascending order, exactly
\* the source spans of the segmentation that hold at least one index of the
\* tag region, whatever the order in which the segmentation enumerates its
\* entries.
FindsEveryOverlappingPhrase ==
    \A k \in PairPasses :
        LET found == placed[k].source_phrase_regions IN
        /\ \A i \in 1..(Len(found) - 1) : TupleLess(found[i], found[i + 1])
        /\ { found[i] : i \in 1..Len(found) }
             = OverlappingSpans(placed[k].source_tag_region,
                                translated_segment.segmentation)

\* the pass ended with an exception
PassRaised(k) == k = Len(placed) /\ reinserted # None /\ reinserted.raised # ""

\* the target indexes the alignment holds for the source indexes of a region
AlignedToRegion(source_tag_region, items) ==
    UNION { { TargetsOf(items, source_tag_region[i])[j] :
                j \in 1..Len(TargetsOf(items, source_tag_region[i])) } :
            i \in 1..Len(source_tag_region) }

\* the indexes of a span
Span(phrase) == phrase[1]..phrase[2]

\* the passes where the region does not coincide with its source phrase
\* regions, by whether the target covering phrases are contiguous
AlignmentPasses(contiguous) ==
    { k \in PairPasses :
        /\ placed[k].source_phrase_regions # <<>>
        /\ ~ _str_spr_coincide(placed[k].source_tag_region,
                               placed[k].source_phrase_regions)
        /\ _tcp_is_contiguous(placed[k].target_covering_phrases) = contiguous
        /\ ~ PassRaised(k) }

\* C22.  Full strategy, Rule 3.5: in a pass where the region does not
\* coincide with its source phrase regions and the target covering phrases
\* are not contiguous, two changes are added: the opening tag at the first
\* index of the leftmost target covering phrase that is aligned to the
\* region, and the closing tag at the last index of the rightmost target
\* covering phrase that is aligned to the region.
Rule35PlacesBothTags ==
    \A k \in AlignmentPasses(FALSE) :
        LET phrases == placed[k].target_covering_phrases
            aligned == AlignedToRegion(placed[k].source_tag_region,
                                       translated_segment.alignment.items)
            left    == CHOOSE p \in { phrases[i] : i \in 1..Len(phrases) } :
                          \A i \in 1..Len(phrases) : p[1] <= phrases[i][1]
            right   == CHOOSE p \in { phrases[i] : i \in 1..Len(phrases) } :
                          \A i \in 1..Len(phrases) : p[2] >= phrases[i][2]
            first   == Span(left) \cap aligned
            last    == Span(right) \cap aligned
        IN /\ first # {} /\ last # {}
           /\ placed[k].added =
                 << << CHOOSE t \in first : \A u \in first : t <= u,
                       placed[k].opening[2] >>,
                    << CHOOSE t \in last : \A u \in last : t >= u,
                       placed[k].closing[2] >> >>

\* the passes where the region coincides with its source phrase regions
CoincidingPasses ==
    { k \in PairPasses :
        /\ placed[k].source_phrase_regions # <<>>
        /\ _str_spr_coincide(placed[k].source_tag_region,
                             placed[k].source_phrase_regions) }

\* the least start and the greatest end of some phrases
LeastStart(phrases) ==
    CHOOSE t \in { phrases[i][1] : i \in 1..Len(phrases) } :
        \A i \in 1..Len(phrases) : t <= phrases[i][1]
GreatestEnd(phrases) ==
    CHOOSE t \in { phrases[i][2] : i \in 1..Len(phrases) } :
        \A i \in 1..Len(phrases) : t >= phrases[i][2]

\* C23.  Full strategy, Rules 1 and 3: in a pass where the first and the
\* last index of the tag region are the first start and the last end of its
\* source phrase regions, the pass ends without an exception and adds two
\* changes: the opening tag at the least start of the target covering
\* phrases and the closing tag at one past their greatest end, be the
\* phrases contiguous (Rule 1) or not (Rule 3).
CoincidingRegionTakesPhraseBounds ==
    \A k \in CoincidingPasses :
        LET phrases == placed[k].target_covering_phrases IN
        /\ ~ PassRaised(k)
        /\ Len(placed[k].added) = 2
        /\ { placed[k].added[1], placed[k].added[2] }
             = { <<LeastStart(phrases), placed[k].opening[2]>>,
                 <<GreatestEnd(phrases) + 1, placed[k].closing[2]>> }

\* a pass of Rule 3 over target covering phrases whose first is not the
\* leftmost one
CoincidingRegionWitness ==
    \E k \in CoincidingPasses :
        LET phrases == placed[k].target_covering_phrases IN
        /\ ~ _tcp_is_contiguous(phrases)
        /\ phrases[1][1] # LeastStart(phrases)
        /\ Len(placed[k].added) = 2

\* C24.  Full strategy, Rule 2: a pass where the region does not coincide
\* with its source phrase regions and the target covering phrases are
\* contiguous ends without an exception and adds two changes, the opening
\* tag first: the opening tag at the least target index the alignment holds
\* for a source index of the region and the closing tag at one past the
\* greatest; when the alignment holds no target index for the region, be it
\* for empty lists or for missing keys, both at or past the end of the
\* target tokens, the opening tag not after the closing tag.
Rule2PlacesAtAlignedBounds ==
    \A k \in PairPasses :
        (/\ placed[k].source_phrase_regions # <<>>
         /\ ~ _str_spr_coincide(placed[k].source_tag_region,
                                placed[k].source_phrase_regions)
         /\ _tcp_is_contiguous(placed[k].target_covering_phrases))
        => LET aligned == AlignedToRegion(placed[k].source_tag_region,
                                          translated_segment.alignment.items)
               added   == placed[k].added
               end     == Len(Split(translated_segment.translation))
           IN /\ ~ PassRaised(k)
              /\ Len(added) = 2
              /\ added[1][2] = placed[k].opening[2]
              /\ added[2][2] = placed[k].closing[2]
              /\ IF aligned = {}
                 THEN end <= added[1][1] /\ added[1][1] <= added[2][1]
                 ELSE /\ added[1][1] = CHOOSE t \in aligned : \A u \in aligned : t <= u
                      /\ added[2][1] = 1 + CHOOSE t \in aligned : \A u \in aligned : t >= u

\* the call has returned a segment
Returned == pc = "reinserted" /\ reinserted # None /\ reinserted.raised = ""

\* the place in the output of the target token of a zero-based index: the
\* target tokens differ from each other and from the tags; 0 stands for
\* the token before the first and Len(output) + 1 for the one after the last
PlaceOf(output, target_tokens, index) ==
    IF index < 0 THEN 0
    ELSE IF index >= Len(target_tokens) THEN Len(output) + 1
    ELSE CHOOSE i \in 1..Len(output) : output[i] = target_tokens[index + 1]

\* the tokens of the output after the target token of index p - 1 and
\* before the target token of index p
Between(output, target_tokens, p) ==
    SubSeq(output, PlaceOf(output, target_tokens, p - 1) + 1,
                   PlaceOf(output, target_tokens, p) - 1)

\* the tokens of the tags whose change has position p, positions past the
\* end counting as the end
TagsDueAt(p, last) ==
    Concat([k \in 1..Len(changes) |->
               IF changes[k][1] = p \/ (p = last /\ changes[k][1] > last)
               THEN Split(changes[k][2]) ELSE <<>>])

\* C25.  Full strategy, applying the changes: in the segment returned the
\* target tokens stand in their order, nothing but the tags of the changes
\* is added, and the tags of the changes of position p stand after the
\* target token of index p - 1 and before the target token of index p, at
\* the end when p is the length of the target or more.
ChangesKeepPositions ==
    Returned /\ reinsertion_strategy = REINSERTION_FULL /\ placed # <<>> =>
        LET target_tokens == Split(translated_segment.translation)
            output        == Split(reinserted.segment)
            last          == Len(target_tokens)
        IN /\ Content(output) = target_tokens
           /\ \A p \in 0..last :
                 SameTokens(Between(output, target_tokens, p), TagsDueAt(p, last))

\* changes at one position, a change at another before the last target token
ChangesKeepPositionsWitness ==
    /\ Returned /\ reinsertion_strategy = REINSERTION_FULL
    /\ \E i, j, k \in 1..Len(changes) :
          /\ i # j /\ changes[i][1] = changes[j][1]
          /\ changes[k][1] > changes[i][1]
          /\ changes[i][1] > 0
          /\ changes[k][1] < Len(Split(translated_segment.translation))

(***************************************************************************)
(* Further properties of the alignment-only and segmentation-only          *)
(* strategies                                                              *)
(***************************************************************************)
\* the tokens of the output after its last token that is no tag
AfterLastWord(output) ==
    LET words == { p \in 1..Len(output) : ~ is_xml_tag(output[p]) }
        last  == IF words = {} THEN 0
                 ELSE CHOOSE p \in words : \A q \in words : q <= p
    IN SubSeq(output, last + 1, Len(output))

\* C26.  Alignment-only: the tags that follow the last word of the source
\* are in the output after the last target token, each as often as the
\* source has it there, whether force_all is set or not and whatever the
\* numbers of source and target tokens.
EndTagsEmittedLast ==
    (pc = "reinserted" /\ reinsertion_strategy = REINSERTION_ALIGNMENT)
    => LET tokens   == tokenize_keep_markup(source_segment)
           pending  == TagsBeforeWord(tokens, Len(Content(tokens)))
           emitted  == AfterLastWord(Split(reinserted.segment))
       IN /\ reinserted.raised = ""
          /\ \A k \in 1..Len(pending) :
                 Count(emitted, pending[k]) >= Count(pending, pending[k])

\* the tags of the tokenized source that are pending at an index of the
\* source span, in the order of the source: the closing ones, or the others
TagsInSpan(tokens, span, closing) ==
    LET places == SelectSeq(TagPlaces(tokens),
                     LAMBDA p : /\ span[1] <= PendingAt(tokens, p)
                                /\ PendingAt(tokens, p) <= span[2]
                                /\ _is_closing_tag(tokens[p]) = closing)
    IN [k \in 1..Len(places) |-> tokens[places[k]]]

\* the phrase pairs from the one whose target span starts first to the one
\* whose target span starts last, for target spans that start apart
ByTargetStart(phrases) ==
    [k \in 1..Len(phrases) |->
        phrases[CHOOSE i \in 1..Len(phrases) :
            Cardinality({ j \in 1..Len(phrases) :
                            phrases[j][2][1] < phrases[i][2][1] }) = k - 1]]

\* what a phrase pair puts out: the opening and self-closing tags of its
\* source span, its target tokens, the closing tags of its source span
PhraseOutput(tokens, target_tokens, phrase) ==
    TagsInSpan(tokens, phrase[1], FALSE)
    \o SubSeq(target_tokens, phrase[2][1] + 1, phrase[2][2] + 1)
    \o TagsInSpan(tokens, phrase[1], TRUE)

\* C27.  Segmentation-only placement: the output is, for the phrase pairs
\* in ascending order of their target spans, the opening and self-closing
\* tags whose source position lies in the source span of the phrase, then
\* the target tokens of the phrase, then the closing tags whose source
\* position lies in the span; nothing follows unless force_all is set.
PhrasesCarryTheirTags ==
    (pc = "reinserted" /\ reinsertion_strategy = REINSERTION_SEGMENTATION)
    => LET tokens  == tokenize_keep_markup(source_segment)
           target_tokens == Split(translated_segment.translation)
           phrases == ByTargetStart(translated_segment.segmentation)
           output  == Split(reinserted.segment)
           due     == Concat([k \in 1..Len(phrases) |->
                                 PhraseOutput(tokens, target_tokens, phrases[k])])
       IN /\ reinserted.raised = ""
          /\ Len(output) >= Len(due)
          /\ SubSeq(output, 1, Len(due)) = due
          /\ ~ force_all => output = due

\* two phrases the translation has in the other order than the source, the
\* one with an opening tag in its source span and the other with a closing tag
PhrasesCarryTheirTagsWitness ==
    /\ pc = "reinserted"
    /\ reinsertion_strategy = REINSERTION_SEGMENTATION
    /\ LET tokens  == tokenize_keep_markup(source_segment)
           phrases == translated_segment.segmentation
       IN \E i, j \in 1..Len(phrases) :
             /\ phrases[i][1][1] < phrases[j][1][1]
             /\ phrases[i][2][1] > phrases[j][2][1]
             /\ TagsInSpan(tokens, phrases[i][1], FALSE) # <<>>
             /\ TagsInSpan(tokens, phrases[j][1], TRUE) # <<>>

(***************************************************************************)
(* The Masker on translations that repeat or drop tokens: the engine need  *)
(* not return every placeholder of the masked segment exactly once.        *)
(***************************************************************************)
InitUnmasker ==
    /\ strategy = ""
    /\ escape = FALSE
    /\ segment \in Segments
    /\ pc = "start"
    /\ masked = <<>>
    /\ mapping = <<>>
    /\ target = <<>>
    /\ alignment = None
    /\ result = <<>>
    /\ raised = ""
    /\ escaped = <<>>
    /\ deescaped = <<>>
    /\ NoReinserter

\* the (zero-based) target positions that hold a copy of the i-th source
\* token, in ascending order
CopiesOf(copy, i) ==
    SelectSeq([j \in 1..Len(copy) |-> j - 1], LAMBDA t : copy[t + 1] = i)

\* The translation engine returns, at each target position, a copy of some
\* token of the masked segment, and aligns every source token to its copies.
\* Only a Masker of the shared-symbol strategy is handed the alignment.
TranslateFreely ==
    /\ pc = "masked"
    /\ LET source_tokens == Split(masked)
           n == Len(source_tokens)
       IN \E copy \in [1..n -> 1..n] :
            /\ target' = Join([j \in 1..n |-> source_tokens[copy[j]]])
            /\ alignment' = IF strategy = MASKING_ALIGNMENT
                            THEN Dict([i \in 0..(n - 1) |-> CopiesOf(copy, i + 1)])
                            ELSE None
    /\ pc' = "translated"
    /\ UNCHANGED <<strategy, escape, segment, masked, mapping, result, raised,
                   escaped, deescaped>>
    /\ UNCHANGED reinserterVars

NextUnmasker ==
    \/ NewMasker
    \/ MaskSegment
    \/ TranslateFreely
    \/ UnmaskSegment

SpecUnmasker == InitUnmasker /\ [][NextUnmasker]_vars

(***************************************************************************)
(* Properties of the unmasking of translations that repeat or drop tokens  *)
(***************************************************************************)
\* the mapping unmask_segment was handed: the one mask_segment returned
HandedMapping == mask_segment(strategy, escape, segment).mapping

ResultTokens == Split(result)

\* unmask_segment, handed the mapping m, has returned from the loop of
\* replacements (identity, or shared symbols without a duplicate), or from
\* the scan of the source tokens (shared symbols with a duplicate)
ReplacedInOrder(m) ==
    /\ m # <<>>
    /\ \/ strategy = MASKING_IDENTITY
       \/ strategy = MASKING_ALIGNMENT /\ ~ HasDuplicates(m)

ScannedSource(m) ==
    /\ strategy = MASKING_ALIGNMENT
    /\ HasDuplicates(m)

\* after is before, or before with one occurrence of the entry's placeholder
\* replaced by the entry's original
SubstitutesOnce(before, after, entry) ==
    \/ after = before
    \/ \E i \in 1..Len(before) :
          /\ i + Len(entry[1]) - 1 <= Len(before)
          /\ SubSeq(before, i, i + Len(entry[1]) - 1) = entry[1]
          /\ after = SubSeq(before, 1, i - 1) \o entry[2]
                        \o SubSeq(before, i + Len(entry[1]), Len(before))

\* the target after the first k entries of the mapping m have had their turn
AfterEntry(m, k) == ReplaceInOrder(target, SubSeq(m, 1, k))

\* the entries of m with the placeholder spelling p, in order
Spelled(m, p) == SelectSeq(m, LAMBDA entry : entry[1] = p)

IsSuffix(a, b) ==
    /\ Len(a) <= Len(b)
    /\ a = SubSeq(b, Len(b) - Len(a) + 1, Len(b))

\* the (one-based) target positions whose token the call replaced
Substituted ==
    {j \in 1..Len(TargetTokens) : ResultTokens[j] # TargetTokens[j]}

\* the (one-based) source positions whose first aligned target token the
\* call replaced, and the rank of one among those of its spelling
Consumers ==
    {i \in 1..Len(SourceTokens) :
        /\ alignment.dict[i - 1] # <<>>
        /\ alignment.dict[i - 1][1] + 1 \in Substituted}

Rank(i) ==
    Cardinality({h \in Consumers : h <= i /\ SourceTokens[h] = SourceTokens[i]})

(***************************************************************************)
(* C28.  On every unmasking path each mapping entry is substituted into    *)
(* the target at most once, also when the target repeats a placeholder: in *)
(* the loop of replacements every entry's turn leaves the target as it is  *)
(* or replaces one occurrence of the entry's placeholder; in the scan of   *)
(* the source tokens every replaced target token accounts for one entry    *)
(* deleted from the mapping, the entries deleted are the first of their    *)
(* spelling, and the k-th source token of a spelling that has a target     *)
(* token replaced puts the original of the k-th entry of that spelling     *)
(* there.                                                                  *)
(***************************************************************************)
EntriesSubstitutedOnce ==
    pc = "done" /\ raised = "" =>
    \E m \in {HandedMapping} :
        /\ ReplacedInOrder(m) =>
              /\ result = AfterEntry(m, Len(m))
              /\ \A k \in 1..Len(m) :
                    SubstitutesOnce(AfterEntry(m, k - 1), AfterEntry(m, k), m[k])
        /\ ScannedSource(m) =>
              /\ Len(ResultTokens) = Len(TargetTokens)
              /\ Cardinality(Substituted) = Len(m) - Len(mapping)
              /\ \A e \in 1..Len(m) :
                    IsSuffix(Spelled(mapping, m[e][1]), Spelled(m, m[e][1]))
              /\ \A j \in Substituted :
                    \E i \in Consumers : alignment.dict[i - 1][1] + 1 = j
              /\ \A i \in Consumers :
                    /\ Rank(i) <= Len(Spelled(m, SourceTokens[i]))
                    /\ ResultTokens[alignment.dict[i - 1][1] + 1]
                          = Spelled(m, SourceTokens[i])[Rank(i)][2]

\* Two entries that share a spelling and hold different originals were both
\* used, while the target repeated a placeholder and one copy was left.
EntriesSubstitutedOnceWitness ==
    /\ pc = "done"
    /\ raised = ""
    /\ strategy = MASKING_ALIGNMENT
    /\ \E i \in 0..(Len(SourceTokens) - 1) : Len(alignment.dict[i]) = 2
    /\ \E j \in 1..Len(ResultTokens) : IsPlaceholder(ResultTokens[j])
    /\ \E i, h \in Substituted : ResultTokens[i] # ResultTokens[h]
    /\ \E m \in {HandedMapping} :
          /\ ScannedSource(m)
          /\ Len(m) - Len(mapping) = 2

(***************************************************************************)
(* Further properties of mask_segment                                      *)
(***************************************************************************)
\* the (one-based) positions of the placeholder tokens of the masked segment
PlaceholderPositions ==
    {j \in 1..Len(SourceTokens) : IsPlaceholder(SourceTokens[j])}

(***************************************************************************)
(* C29.  After mask_segment the mapping entries and the placeholders of    *)
(* the returned segment correspond one to one: the mapping is as long as   *)
(* the segment has placeholder tokens, and every placeholder of the        *)
(* mapping is a token of the segment, also when a later category's pattern *)
(* matched text that held an earlier category's placeholder.               *)
(* The code does not keep this: the later pattern's match takes the        *)
(* earlier placeholder out of the segment and into the later entry's       *)
(* original, while the earlier entry stays in the mapping.                 *)
(***************************************************************************)
MappingMatchesPlaceholders ==
    pc = "masked" =>
        /\ Len(mapping) = Cardinality(PlaceholderPositions)
        /\ \A e \in 1..Len(mapping) :
              \E j \in PlaceholderPositions : SourceTokens[j] = mapping[e][1]

(***************************************************************************)
(* C30.  The full strategy keeps markup well-formed: for a source whose    *)
(* tag pairs are properly nested, one pair directly enclosing another over *)
(* the same content included, the segment returned has every opening tag   *)
(* before its own closing tag and the pairs properly nested, never         *)
(* crossed.                                                                *)
(* The code does not: the positions of the two tags of a pair are taken    *)
(* from the alignment or the phrases independently of the other pairs, and *)
(* a closing tag can be put before its opening tag or inside another pair. *)
(***************************************************************************)
FullKeepsMarkupWellFormed ==
    Returned /\ WellFormed(source_segment) => WellFormed(reinserted.segment)
=============================================================================
